---- MODULE Spec2Model ----
(***************************************************************************)
(* Model of the SmartAssistant firmware's sensing core:                    *)
(*   - the shake/tap gesture detector (mpu6050_module.c),                  *)
(*   - the Wi-Fi connectivity manager (src/main/display_config.h).       *)
(*                                                                         *)
(* Accelerations are integers in units of 0.01 g, times are milliseconds   *)
(* since boot.  The time horizon of the model stays far below 2^32 ms, so  *)
(* the uint32_t differences of the source never wrap and are plain         *)
(* subtractions here (every stored timestamp is <= the current time).      *)
(***************************************************************************)
EXTENDS Integers, Sequences, FiniteSets, TLC

\* ------------------------------------------------------------------------
\* Program constants (project_config.h)
\* ------------------------------------------------------------------------
CONFIG_MPU6050_TAP_Z_THRESHOLD == 20
CONFIG_MPU6050_SHAKE_THRESHOLD == 18
CONFIG_MPU6050_TAP_DEBOUNCE_MS == 180
CONFIG_MPU6050_TAP_DISPLAY_MS == 800
CONFIG_MPU6050_SHAKE_MIN_DURATION_MS == 500
CONFIG_MPU6050_SHAKE_DISPLAY_MS == 800
CONFIG_MPU6050_SHAKE_TIMEOUT_MS == 500
CONFIG_MPU6050_POLL_INTERVAL_MS == 50
CONFIG_WIFI_MAXIMUM_RETRY == 5
CONFIG_WIFI_INITIAL_RETRY_MS == 2000
CONFIG_WIFI_MAX_RETRY_MS == 10000
INT8_MIN == -128
\* wifi_task refreshes the RSSI every RSSI_UPDATE_PERIOD loop iterations
RSSI_UPDATE_PERIOD == 5
PIR_POLL_INTERVAL_MS == 500
STATUS_STRING_MIN == 32

\* ------------------------------------------------------------------------
\* Bounds of the model
\* ------------------------------------------------------------------------
\* number of loop iterations of motion_detection_task that are explored
MaxTicks == 25
\* the same for the streams without z transients
MaxShakeTicks == 29
\* time since boot (ms) at which motion_detection_task runs its first iteration
TaskStartMs == 1000
MaxPirTicks == 16
MaxLifeTicks == 4
MaxLifeCalls == 4
\* iterations of motion_detection_task, and calls of init and deinit, in the
\* runs of the gesture detector across deinit/init cycles
MaxCycleTicks == 13
MaxCycleCalls == 4

\* samples (ax, ay, az) fed to the detector, in 0.01 g: between the first two
\* the x change of 19 is shake activity without a z transient; to or from the
\* third the z change of 21 is a z transient (and, being larger than the shake
\* threshold, shake activity as well); a repeated sample is a quiet tick
Samples == {<<0, 0, 100>>, <<19, 0, 100>>, <<0, 0, 121>>}

\* the samples without a z transient
ShakeSamples == {<<0, 0, 100>>, <<19, 0, 100>>}

NoTime == -1

\* capacity of the event-loop queue that is explored
MaxEvq == 2
\* signal strengths (dBm) the access point is seen with
RssiVals == {-60, -75}

VARIABLES
    \* --- esp_timer and the task loop -----------------------------------
    clock,                      \* esp_timer time (ms) of the next loop iteration
    \* --- detect_shake_activity statics ---------------------------------
    prev_ax, prev_ay, prev_az, first_run,
    \* --- detect_tap statics --------------------------------------------
    prev_tap_z, tap_first_run,
    \* --- module state --------------------------------------------------
    motion_status,              \* [shake_detected, tap_detected, last_motion_time]
    last_shake_activity_time, last_tap_time, tap_display_start,
    shake_start_time, shake_display_start, is_shaking,
    \* --- observation of the last loop iteration (history, not program state)
    hist,
    \* --- Wi-Fi module globals ------------------------------------------
    s_wifi_info,                \* [status, rssi, retry_count, ip_address]
    s_retry_num, s_wifi_initialized, s_connection_requested, s_retry_delay_ms,
    \* --- wifi_task: position in its loop and its locals ------------------
    wifi_pc, wifi_ret, rssi_update_counter,
    \* --- the caller of the API: position inside a call, and its local ret ---
    api_pc, api_ret,
    \* --- Wi-Fi driver and default event loop (environment) ---------------
    drv,                        \* [started, link, rssi]
    evq,                        \* events posted and not yet handled (FIFO)
    \* --- observation of the Wi-Fi run (history, not program state)
    whist,
    \* --- PIR module ------------------------------------------------------
    pir_status,                 \* [motion_detected, last_motion_time, no_motion_duration]
    pir_clock,                  \* esp_timer time (ms) of the next pir_monitoring_task iteration
    \* --- observation of the last PIR iteration (history, not program state)
    pir_hist,                   \* [ticks, current_motion, now, edge]
    \* --- life cycle of the modules ----------------------------------------
    module_initialized,         \* mpu6050_module.c
    mpu6050_handle,             \* "NULL" or "DEVICE"
    motion_task_handle,         \* "NULL" or "TASK"
    i2c_installed,              \* the I2C driver of the MPU6050 port is installed
    pir_module_initialized, pir_task_handle,
    s_wifi_task_handle,
    handler_registered,         \* event_handler is registered with the event loop
    time_module_initialized,    \* module_initialized of time_module.c
    rtc_available, current_status,
    time_i2c_installed,         \* the I2C driver of the DS3231 port is installed
    \* --- observation of the life-cycle calls (history, not program state)
    life                        \* [focus, op, ret, out, buffer, size, calls, mpu_fresh, mpu_fault]

mvars == <<clock, prev_ax, prev_ay, prev_az, first_run, prev_tap_z, tap_first_run,
           motion_status, last_shake_activity_time, last_tap_time, tap_display_start,
           shake_start_time, shake_display_start, is_shaking, hist>>

wvars == <<s_wifi_info, s_retry_num, s_wifi_initialized, s_connection_requested,
           s_retry_delay_ms, wifi_pc, wifi_ret, rssi_update_counter, api_pc, api_ret,
           drv, evq, whist>>

pvars == <<pir_status, pir_clock, pir_hist>>

lvars == <<module_initialized, mpu6050_handle, motion_task_handle, i2c_installed,
           pir_module_initialized, pir_task_handle, s_wifi_task_handle,
           handler_registered, time_module_initialized, rtc_available,
           current_status, time_i2c_installed, life>>

vars == <<mvars, wvars, pvars, lvars>>

Abs(x) == IF x < 0 THEN -x ELSE x

\* ------------------------------------------------------------------------
\* Time helpers
\* ------------------------------------------------------------------------
get_time_ms(us_clock_ms) == us_clock_ms

get_time_seconds(us_clock_ms) == us_clock_ms \div 1000

\* ------------------------------------------------------------------------
\* detect_shake_activity: result and the new previous-sample memory
\* ------------------------------------------------------------------------
\* sqrtf(dx^2+dy^2+dz^2) > THRESHOLD, compared on the squares
total_change_exceeds(dx, dy, dz, thr) == dx * dx + dy * dy + dz * dz > thr * thr

detect_shake_activity(ax, ay, az) ==
    IF first_run
    THEN [result |-> FALSE, prev_ax |-> ax, prev_ay |-> ay, prev_az |-> az, first_run |-> FALSE]
    ELSE LET delta_x == Abs(ax - prev_ax)
             delta_y == Abs(ay - prev_ay)
             delta_z == Abs(az - prev_az)
         IN  [result |-> total_change_exceeds(delta_x, delta_y, delta_z,
                                              CONFIG_MPU6050_SHAKE_THRESHOLD),
              prev_ax |-> ax, prev_ay |-> ay, prev_az |-> az, first_run |-> FALSE]

\* ------------------------------------------------------------------------
\* detect_tap: result, new prev_tap_z / tap_first_run / last_tap_time
\* ------------------------------------------------------------------------
tap_debounce_passed(current_time, last) == current_time - last > CONFIG_MPU6050_TAP_DEBOUNCE_MS

\* variant: the tap test is not skipped while shaking
detect_tap_while_shaking(az, current_time) ==
    IF tap_first_run
    THEN [result |-> FALSE, prev_tap_z |-> az,
          tap_first_run |-> FALSE, last_tap_time |-> last_tap_time]
    ELSE LET z_change == Abs(az - prev_tap_z)
             accept   == /\ z_change > CONFIG_MPU6050_TAP_Z_THRESHOLD
                         /\ tap_debounce_passed(current_time, last_tap_time)
         IN  [result |-> accept, prev_tap_z |-> az, tap_first_run |-> FALSE,
              last_tap_time |-> IF accept THEN current_time ELSE last_tap_time]

\* detect_tap; is_shaking is read before section 2 of the iteration changes it
detect_tap(az, current_time) ==
    IF is_shaking
    THEN [result |-> FALSE, prev_tap_z |-> prev_tap_z,
          tap_first_run |-> tap_first_run, last_tap_time |-> last_tap_time]
    ELSE IF tap_first_run
    THEN [result |-> FALSE, prev_tap_z |-> az,
          tap_first_run |-> FALSE, last_tap_time |-> last_tap_time]
    ELSE LET z_change == Abs(az - prev_tap_z)
             accept   == /\ z_change > CONFIG_MPU6050_TAP_Z_THRESHOLD
                         /\ tap_debounce_passed(current_time, last_tap_time)
         IN  [result |-> accept, prev_tap_z |-> az, tap_first_run |-> FALSE,
              last_tap_time |-> IF accept THEN current_time ELSE last_tap_time]

\* ------------------------------------------------------------------------
\* The four state-machine sections of one loop iteration, each a function
\* of the detector state record
\*   st = [is_shaking, shake_start_time, last_shake_activity_time,
\*         shake_display_start, tap_display_start, ms]   (ms = motion_status)
\* ------------------------------------------------------------------------
DetectorState ==
    [is_shaking |-> is_shaking, shake_start_time |-> shake_start_time,
     last_shake_activity_time |-> last_shake_activity_time,
     shake_display_start |-> shake_display_start,
     tap_display_start |-> tap_display_start, ms |-> motion_status]

\* variant: a strict comparison, confirming one iteration too late
shake_confirm_due_strict(st, current_time) ==
    /\ ~st.is_shaking
    /\ current_time - st.shake_start_time > CONFIG_MPU6050_SHAKE_MIN_DURATION_MS

\* the promotion test of section 2
shake_confirm_due(st, current_time) ==
    /\ ~st.is_shaking
    /\ current_time - st.shake_start_time >= CONFIG_MPU6050_SHAKE_MIN_DURATION_MS

\* variant: the activity timeout taken as soon as the time has been reached
shake_timeout_due_nonstrict(st, current_time) ==
    /\ st.shake_start_time > 0
    /\ current_time - st.last_shake_activity_time >= CONFIG_MPU6050_SHAKE_TIMEOUT_MS

\* the activity-timeout test of section 2
shake_timeout_due(st, current_time) ==
    /\ st.shake_start_time > 0
    /\ current_time - st.last_shake_activity_time > CONFIG_MPU6050_SHAKE_TIMEOUT_MS

\* variant: the comparison of the display-hold test inverted
shake_hold_pending_inverted(st, current_time) ==
    /\ st.shake_display_start > 0
    /\ current_time - st.shake_display_start > CONFIG_MPU6050_SHAKE_DISPLAY_MS

\* the display-hold test of the timeout branch
shake_hold_pending(st, current_time) ==
    /\ st.shake_display_start > 0
    /\ current_time - st.shake_display_start < CONFIG_MPU6050_SHAKE_DISPLAY_MS

\* 2. SHAKE STATE MANAGEMENT
shake_state_management(st, shake_activity, current_time) ==
    IF shake_activity
    THEN LET s1 == [st EXCEPT
                      !.shake_start_time = IF st.shake_start_time = 0
                                           THEN current_time ELSE @,
                      !.last_shake_activity_time = current_time]
         IN  IF shake_confirm_due(s1, current_time)
             THEN [s1 EXCEPT !.is_shaking = TRUE,
                             !.ms.shake_detected = TRUE,
                             !.ms.tap_detected = FALSE,
                             !.ms.last_motion_time = get_time_seconds(current_time),
                             !.shake_display_start = current_time]
             ELSE s1
    ELSE IF shake_timeout_due(st, current_time)
         THEN LET s1 == [st EXCEPT !.shake_start_time = 0, !.is_shaking = FALSE]
              IN  IF shake_hold_pending(s1, current_time)
                  THEN [s1 EXCEPT !.ms.shake_detected = TRUE]
                  ELSE [s1 EXCEPT !.ms.shake_detected = FALSE,
                                  !.shake_display_start = 0]
         ELSE st

\* variant: the display timeout applied while shaking instead of afterwards
shake_display_timeout_while_shaking(st, current_time) ==
    IF /\ st.ms.shake_detected
       /\ st.shake_display_start > 0
       /\ st.is_shaking
       /\ current_time - st.shake_display_start >= CONFIG_MPU6050_SHAKE_DISPLAY_MS
    THEN [st EXCEPT !.ms.shake_detected = FALSE, !.shake_display_start = 0]
    ELSE st

\* 5. SHAKE DISPLAY TIMEOUT
shake_display_timeout(st, current_time) ==
    IF /\ st.ms.shake_detected
       /\ st.shake_display_start > 0
       /\ ~st.is_shaking
       /\ current_time - st.shake_display_start >= CONFIG_MPU6050_SHAKE_DISPLAY_MS
    THEN [st EXCEPT !.ms.shake_detected = FALSE, !.shake_display_start = 0]
    ELSE st

\* 3. TAP EVENT HANDLING
tap_event_handling(st, tap_event, current_time) ==
    IF tap_event
    THEN [st EXCEPT !.ms.tap_detected = TRUE,
                    !.ms.last_motion_time = get_time_seconds(current_time),
                    !.tap_display_start = current_time]
    ELSE st

\* variant: a strict comparison, clearing the tap one iteration too late
tap_display_timeout_strict(st, current_time) ==
    IF /\ st.ms.tap_detected
       /\ st.tap_display_start > 0
       /\ current_time - st.tap_display_start > CONFIG_MPU6050_TAP_DISPLAY_MS
    THEN [st EXCEPT !.ms.tap_detected = FALSE, !.tap_display_start = 0]
    ELSE st

\* 4. TAP DISPLAY TIMEOUT
tap_display_timeout(st, current_time) ==
    IF /\ st.ms.tap_detected
       /\ st.tap_display_start > 0
       /\ current_time - st.tap_display_start >= CONFIG_MPU6050_TAP_DISPLAY_MS
    THEN [st EXCEPT !.ms.tap_detected = FALSE, !.tap_display_start = 0]
    ELSE st

\* ------------------------------------------------------------------------
\* History of the run, recorded by the loop iterations.  It is written by
\* the actions and read only by the properties.  Times that no property can
\* refer to any more are forgotten (NoTime).
\*   now        time of the last loop iteration
\*   sampled    the last iteration read a sample successfully
\*   activity   shake_activity of the last iteration
\*   tap_event  tap_event of the last iteration
\*   confirmed  the last iteration promoted the shake to confirmed
\*   was_shaking is_shaking at the start of the last iteration
\*   transient  the z change between the last sample and the sample read
\*              before it exceeded TAP_Z_THRESHOLD
\*   isolated   no tap was accepted in the TAP_DEBOUNCE_MS before the last
\*              iteration
\*   spaced     the tap accepted by the last iteration, if any, came more
\*              than TAP_DEBOUNCE_MS after the tap accepted before it
\*   t0         start of the run of activity that left idle, while every
\*              sampled iteration since then carried activity
\*   gap        an iteration without activity was sampled since the shake
\*              timer was started (tracked until the shake is confirmed)
\*   tc         time of the most recent confirmation (kept until
\*              SHAKE_DISPLAY_MS have passed)
\*   ta         time of the most recent accepted tap (kept until a sampled
\*              iteration has seen TAP_DISPLAY_MS pass)
\*   shake_after_tap  a shake was confirmed in an iteration after ta
\* ------------------------------------------------------------------------
HistInit ==
    [now |-> NoTime, sampled |-> FALSE, activity |-> FALSE, tap_event |-> FALSE,
     confirmed |-> FALSE, was_shaking |-> FALSE, transient |-> FALSE,
     isolated |-> FALSE, spaced |-> TRUE,
     t0 |-> NoTime, gap |-> FALSE, tc |-> NoTime,
     ta |-> NoTime, shake_after_tap |-> FALSE]

\* the times of the history that are still of interest at the next iteration
KeepTc == IF hist.tc # NoTime /\ hist.now - hist.tc >= CONFIG_MPU6050_SHAKE_DISPLAY_MS
          THEN NoTime ELSE hist.tc

KeepTa == IF /\ hist.ta # NoTime /\ hist.sampled
             /\ hist.now - hist.ta >= CONFIG_MPU6050_TAP_DISPLAY_MS
          THEN NoTime ELSE hist.ta

Idle(st) == st.shake_start_time = 0 /\ ~st.is_shaking /\ ~st.ms.shake_detected

Within(t, current_time, window) == t # NoTime /\ current_time - t <= window

MotionInit ==
    /\ clock = TaskStartMs
    /\ prev_ax = 0 /\ prev_ay = 0 /\ prev_az = 0 /\ first_run = TRUE
    /\ prev_tap_z = 100 /\ tap_first_run = TRUE
    /\ motion_status = [shake_detected |-> FALSE, tap_detected |-> FALSE,
                        last_motion_time |-> 0]
    /\ last_shake_activity_time = 0 /\ last_tap_time = 0 /\ tap_display_start = 0
    /\ shake_start_time = 0 /\ shake_display_start = 0 /\ is_shaking = FALSE
    /\ hist = HistInit

\* One iteration of the loop of motion_detection_task with a successful read
\* of the sample (ax, ay, az), followed by the poll delay.
motion_detection_task(ax, ay, az) ==
    /\ LET current_time == get_time_ms(clock)
           st0   == DetectorState
           shake == detect_shake_activity(ax, ay, az)
           tap   == detect_tap(az, current_time)
           st2   == shake_state_management(st0, shake.result, current_time)
           st5   == shake_display_timeout(st2, current_time)
           st3   == tap_event_handling(st5, tap.result, current_time)
           st4   == tap_display_timeout(st3, current_time)
           confirmed == ~st0.is_shaking /\ st2.is_shaking
           transient == ~first_run /\ Abs(az - prev_az) > CONFIG_MPU6050_TAP_Z_THRESHOLD
           startsRun == shake.result /\ Idle(st0)
       IN  /\ prev_ax' = shake.prev_ax /\ prev_ay' = shake.prev_ay
           /\ prev_az' = shake.prev_az /\ first_run' = shake.first_run
           /\ prev_tap_z' = tap.prev_tap_z /\ tap_first_run' = tap.tap_first_run
           /\ last_tap_time' = tap.last_tap_time
           /\ is_shaking' = st4.is_shaking
           /\ shake_start_time' = st4.shake_start_time
           /\ last_shake_activity_time' = st4.last_shake_activity_time
           /\ shake_display_start' = st4.shake_display_start
           /\ tap_display_start' = st4.tap_display_start
           /\ motion_status' = st4.ms
           /\ hist' = [now |-> current_time, sampled |-> TRUE,
                       activity |-> shake.result, tap_event |-> tap.result,
                       confirmed |-> confirmed, was_shaking |-> st0.is_shaking,
                       transient |-> transient,
                       isolated |-> ~Within(hist.ta, current_time,
                                            CONFIG_MPU6050_TAP_DEBOUNCE_MS),
                       spaced |-> tap.result =>
                                    ~Within(hist.ta, current_time,
                                            CONFIG_MPU6050_TAP_DEBOUNCE_MS),
                       t0  |-> IF startsRun THEN current_time
                               ELSE IF shake.result THEN hist.t0 ELSE NoTime,
                       gap |-> IF st0.shake_start_time = 0 \/ st0.is_shaking
                               THEN FALSE ELSE hist.gap \/ ~shake.result,
                       tc  |-> IF confirmed THEN current_time ELSE KeepTc,
                       ta  |-> IF tap.result THEN current_time ELSE KeepTa,
                       shake_after_tap |->
                           IF tap.result THEN FALSE
                           ELSE KeepTa # NoTime /\ (hist.shake_after_tap \/ confirmed)]
    /\ clock' = clock + CONFIG_MPU6050_POLL_INTERVAL_MS

\* variant: a failed read clears the published flags
motion_read_failed_clears_flags ==
    /\ clock' = clock + CONFIG_MPU6050_POLL_INTERVAL_MS
    /\ hist' = [hist EXCEPT !.now = clock, !.sampled = FALSE, !.activity = FALSE,
                            !.tap_event = FALSE, !.confirmed = FALSE,
                            !.transient = FALSE, !.isolated = FALSE,
                            !.spaced = TRUE, !.was_shaking = is_shaking,
                            !.tc = KeepTc, !.ta = KeepTa,
                            !.shake_after_tap = KeepTa # NoTime /\ @]
    /\ motion_status' = [motion_status EXCEPT !.shake_detected = FALSE,
                                              !.tap_detected = FALSE]
    /\ UNCHANGED <<prev_ax, prev_ay, prev_az, first_run, prev_tap_z, tap_first_run,
                   last_shake_activity_time, last_tap_time,
                   tap_display_start, shake_start_time, shake_display_start,
                   is_shaking>>

\* One iteration in which mpu6050_get_acce fails: nothing but the poll delay.
motion_read_failed ==
    /\ clock' = clock + CONFIG_MPU6050_POLL_INTERVAL_MS
    /\ hist' = [hist EXCEPT !.now = clock, !.sampled = FALSE, !.activity = FALSE,
                            !.tap_event = FALSE, !.confirmed = FALSE,
                            !.transient = FALSE, !.isolated = FALSE,
                            !.spaced = TRUE, !.was_shaking = is_shaking,
                            !.tc = KeepTc, !.ta = KeepTa,
                            !.shake_after_tap = KeepTa # NoTime /\ @]
    /\ UNCHANGED <<prev_ax, prev_ay, prev_az, first_run, prev_tap_z, tap_first_run,
                   motion_status, last_shake_activity_time, last_tap_time,
                   tap_display_start, shake_start_time, shake_display_start,
                   is_shaking>>

\* ========================================================================
\* Wi-Fi connectivity manager
\* ========================================================================

\* ------------------------------------------------------------------------
\* The driver (ESP-IDF Wi-Fi station), seen through the calls the module
\* makes.  Each call is an operator from the driver and queue state to the
\* returned code and the new driver and queue state.
\* ------------------------------------------------------------------------
Post(q, ev) == Append(q, ev)

StaStart == [id |-> "WIFI_EVENT_STA_START", reason |-> "NONE"]

StaDisconnected(reason) == [id |-> "WIFI_EVENT_STA_DISCONNECTED", reason |-> reason]

GotIp == [id |-> "IP_EVENT_STA_GOT_IP", reason |-> "NONE"]

\* esp_wifi_start: starts the station and posts WIFI_EVENT_STA_START, or fails
esp_wifi_start(d, q, ret) ==
    IF ret # "ESP_OK" \/ d.started
    THEN [ret |-> ret, drv |-> d, evq |-> q]
    ELSE [ret |-> ret, drv |-> [d EXCEPT !.started = TRUE], evq |-> Post(q, StaStart)]

\* the codes esp_wifi_connect can return in driver state d
esp_wifi_connect_rets(d) ==
    IF d.started THEN {"ESP_OK", "ESP_ERR_WIFI_CONN", "ESP_FAIL"}
    ELSE {"ESP_ERR_WIFI_NOT_STARTED"}

\* esp_wifi_connect: on ESP_OK an idle station begins to connect
esp_wifi_connect(d, ret) ==
    IF ret = "ESP_OK" /\ d.link = "idle" THEN [d EXCEPT !.link = "connecting"] ELSE d

\* the codes esp_wifi_disconnect can return in driver state d
esp_wifi_disconnect_rets(d) ==
    IF d.started THEN {"ESP_OK"} ELSE {"ESP_ERR_WIFI_NOT_STARTED"}

\* esp_wifi_disconnect: a connecting or connected station leaves the AP and
\* WIFI_EVENT_STA_DISCONNECTED (reason ASSOC_LEAVE) is posted
esp_wifi_disconnect(d, q, ret) ==
    IF ret = "ESP_OK" /\ d.link # "idle"
    THEN [drv |-> [d EXCEPT !.link = "idle"],
          evq |-> Post(q, StaDisconnected("ASSOC_LEAVE"))]
    ELSE [drv |-> d, evq |-> q]

\* ------------------------------------------------------------------------
\* The adaptive retry delay
\* ------------------------------------------------------------------------
\* variant: the step without the clamp
next_retry_delay_unclamped(d) == (d * 3) \div 2

\* s_retry_delay_ms = (s_retry_delay_ms * 3) / 2, clamped to the maximum
next_retry_delay(d) ==
    LET grown == (d * 3) \div 2
    IN  IF grown > CONFIG_WIFI_MAX_RETRY_MS THEN CONFIG_WIFI_MAX_RETRY_MS ELSE grown

\* ------------------------------------------------------------------------
\* History of the Wi-Fi run, written by the actions, read by the properties
\*   fails    connection failures (station-disconnected events handled and
\*            connect calls of wifi_task that returned an error) since the
\*            retry state was last reset
\*   streak   connection failures since the last success or API call
\*   decided  wifi_task has passed the decision at the top of its loop
\*            since the last failure
\*   late_attempt  wifi_task has called esp_wifi_connect after streak
\*            reached CONFIG_WIFI_MAXIMUM_RETRY
\*   attempts calls of esp_wifi_connect, by wifi_task and by the event
\*            handler, since the retry state was last reset (counted up to
\*            CONFIG_WIFI_MAXIMUM_RETRY + 1)
\*   mode     how the attempts since the reset have ended so far: "sync" when
\*            every call returned an error other than ESP_ERR_WIFI_CONN and no
\*            station-disconnected event was handled, "async" when every call
\*            returned ESP_OK, "none" before the first call, "mixed" otherwise
\* ------------------------------------------------------------------------
WHistInit ==
    [fails |-> 0, streak |-> 0, decided |-> FALSE, late_attempt |-> FALSE,
     attempts |-> 0, mode |-> "none"]

WHistReset == WHistInit

WHistFailure(h) == [h EXCEPT !.fails = @ + 1, !.streak = @ + 1, !.decided = FALSE]

WHistCount(n) == IF n <= CONFIG_WIFI_MAXIMUM_RETRY THEN n + 1 ELSE n

WHistAttempt(h, ret) ==
    [h EXCEPT !.attempts = WHistCount(@),
              !.mode = CASE ret = "ESP_ERR_WIFI_CONN" -> "mixed"
                         [] ret = "ESP_OK" ->
                              IF @ \in {"none", "async"} THEN "async" ELSE "mixed"
                         [] OTHER ->
                              IF @ \in {"none", "sync"} THEN "sync" ELSE "mixed"]

WifiInit ==
    /\ s_wifi_info = [status |-> "DISCONNECTED", rssi |-> INT8_MIN,
                      retry_count |-> 0, ip_address |-> ""]
    /\ s_retry_num = 0
    /\ s_wifi_initialized = TRUE
    /\ s_connection_requested = FALSE
    /\ s_retry_delay_ms = CONFIG_WIFI_INITIAL_RETRY_MS
    /\ wifi_pc = "loop" /\ wifi_ret = "NONE" /\ rssi_update_counter = 0
    /\ api_pc = "idle" /\ api_ret = "NONE"
    /\ drv = [started |-> FALSE, link |-> "idle", rssi |-> INT8_MIN]
    /\ evq = <<>>
    /\ whist = WHistInit

\* ------------------------------------------------------------------------
\* event_handler, one event at a time in posting order
\* ------------------------------------------------------------------------
on_sta_start ==
    \E ret \in esp_wifi_connect_rets(drv) :
        /\ drv' = esp_wifi_connect(drv, ret)
        /\ s_wifi_info' = [s_wifi_info EXCEPT !.status = "CONNECTING"]
        /\ whist' = WHistAttempt(whist, ret)
        /\ UNCHANGED <<s_retry_num, s_connection_requested, s_retry_delay_ms>>

on_sta_disconnected ==
    /\ IF s_retry_num < CONFIG_WIFI_MAXIMUM_RETRY
       THEN /\ s_retry_delay_ms' = next_retry_delay(s_retry_delay_ms)
            /\ s_connection_requested' = TRUE
            /\ UNCHANGED s_wifi_info
       ELSE /\ s_wifi_info' = [s_wifi_info EXCEPT !.status = "FAILED"]
            /\ UNCHANGED <<s_retry_delay_ms, s_connection_requested>>
    /\ whist' = [WHistFailure(whist) EXCEPT
                    !.mode = IF @ = "async" THEN "async" ELSE "mixed"]
    /\ UNCHANGED <<s_retry_num, drv>>

on_got_ip ==
    /\ s_wifi_info' = [status |-> "CONNECTED",
                       rssi |-> IF drv.link = "connected" THEN drv.rssi
                                ELSE s_wifi_info.rssi,
                       retry_count |-> 0,
                       ip_address |-> "192.168.1.100"]
    /\ s_retry_num' = 0
    /\ s_retry_delay_ms' = CONFIG_WIFI_INITIAL_RETRY_MS
    /\ s_connection_requested' = FALSE
    /\ whist' = WHistReset
    /\ UNCHANGED drv

event_handler(ev) ==
    CASE ev.id = "WIFI_EVENT_STA_START"        -> on_sta_start
      [] ev.id = "WIFI_EVENT_STA_DISCONNECTED" -> on_sta_disconnected
      [] ev.id = "IP_EVENT_STA_GOT_IP"         -> on_got_ip

EventLoopDispatch ==
    /\ evq # <<>>
    /\ evq' = Tail(evq)
    /\ IF handler_registered
       THEN event_handler(Head(evq))
       ELSE UNCHANGED <<s_wifi_info, s_retry_num, s_connection_requested,
                        s_retry_delay_ms, drv, whist>>
    /\ UNCHANGED <<s_wifi_initialized, wifi_pc, wifi_ret, rssi_update_counter,
                   api_pc, api_ret, mvars, pvars, lvars>>

\* ------------------------------------------------------------------------
\* wifi_task, one step per position of its loop
\*   loop        the test at the top of the loop
\*   retry_delay in vTaskDelay(s_retry_delay_ms), then the re-check
\*   attempt     the call of esp_wifi_connect
\*   handle_ret  the branches on the returned code
\*   rssi        the RSSI refresh and the one-second sleep
\* ------------------------------------------------------------------------
\* wifi_task blocks in vTaskDelay for one second or more; the event loop
\* runs meanwhile, so the events posted before the delay ends have been
\* handled when wifi_task resumes
delay_elapsed == evq = <<>>

wifi_task_loop ==
    /\ wifi_pc = "loop"
    /\ IF s_connection_requested /\ s_wifi_info.status # "CONNECTED"
       THEN IF s_retry_num < CONFIG_WIFI_MAXIMUM_RETRY
            THEN /\ wifi_pc' = IF s_retry_num > 0 THEN "retry_delay" ELSE "attempt"
                 /\ UNCHANGED <<s_connection_requested, s_wifi_info>>
            ELSE /\ s_connection_requested' = FALSE
                 /\ s_wifi_info' = [s_wifi_info EXCEPT !.status = "FAILED"]
                 /\ wifi_pc' = "rssi"
       ELSE /\ wifi_pc' = "rssi"
            /\ UNCHANGED <<s_connection_requested, s_wifi_info>>
    /\ whist' = [whist EXCEPT !.decided = TRUE]
    /\ UNCHANGED <<s_retry_num, s_retry_delay_ms, wifi_ret, rssi_update_counter,
                   drv, evq>>

wifi_task_retry_delay ==
    /\ wifi_pc = "retry_delay"
    /\ delay_elapsed
    /\ IF s_wifi_info.status = "CONNECTED"
       THEN /\ s_connection_requested' = FALSE
            /\ wifi_pc' = "loop"
       ELSE /\ wifi_pc' = "attempt"
            /\ UNCHANGED s_connection_requested
    /\ UNCHANGED <<s_wifi_info, s_retry_num, s_retry_delay_ms, wifi_ret,
                   rssi_update_counter, drv, evq, whist>>

wifi_task_attempt ==
    /\ wifi_pc = "attempt"
    /\ \E ret \in esp_wifi_connect_rets(drv) :
        /\ wifi_ret' = ret
        /\ drv' = esp_wifi_connect(drv, ret)
        /\ whist' = [WHistAttempt(whist, ret) EXCEPT !.late_attempt =
                        @ \/ whist.streak >= CONFIG_WIFI_MAXIMUM_RETRY]
    /\ wifi_pc' = "handle_ret"
    /\ UNCHANGED <<s_wifi_info, s_retry_num, s_retry_delay_ms,
                   s_connection_requested, rssi_update_counter, evq>>

wifi_task_handle_ret ==
    /\ wifi_pc = "handle_ret"
    /\ CASE wifi_ret = "ESP_ERR_WIFI_CONN" ->
              /\ s_connection_requested' = FALSE
              /\ s_wifi_info' = [s_wifi_info EXCEPT !.status = "CONNECTED"]
              /\ whist' = [whist EXCEPT !.streak = 0]
              /\ UNCHANGED <<s_retry_num, s_retry_delay_ms>>
         [] wifi_ret \notin {"ESP_ERR_WIFI_CONN", "ESP_OK"} ->
              /\ s_retry_num' = s_retry_num + 1
              /\ s_wifi_info' = [s_wifi_info EXCEPT !.retry_count = s_retry_num + 1]
              /\ s_retry_delay_ms' = next_retry_delay(s_retry_delay_ms)
              /\ whist' = WHistFailure(whist)
              /\ UNCHANGED s_connection_requested
         [] wifi_ret = "ESP_OK" ->
              /\ s_retry_num' = s_retry_num + 1
              /\ s_wifi_info' = [s_wifi_info EXCEPT !.retry_count = s_retry_num + 1,
                                                    !.status = "CONNECTING"]
              /\ UNCHANGED <<s_connection_requested, s_retry_delay_ms, whist>>
    /\ wifi_pc' = "rssi"
    /\ wifi_ret' = "NONE"
    /\ UNCHANGED <<rssi_update_counter, drv, evq>>

\* the counter is compared with >= only: it is kept at RSSI_UPDATE_PERIOD once
\* it has reached it
wifi_task_rssi ==
    /\ wifi_pc = "rssi"
    /\ delay_elapsed
    /\ LET counter == IF rssi_update_counter < RSSI_UPDATE_PERIOD
                      THEN rssi_update_counter + 1 ELSE rssi_update_counter
       IN  IF counter >= RSSI_UPDATE_PERIOD /\ s_wifi_info.status = "CONNECTED"
           THEN /\ rssi_update_counter' = 0
                /\ s_wifi_info' = IF drv.link = "connected"
                                  THEN [s_wifi_info EXCEPT !.rssi = drv.rssi]
                                  ELSE s_wifi_info
           ELSE /\ rssi_update_counter' = counter
                /\ UNCHANGED s_wifi_info
    /\ wifi_pc' = "loop"
    /\ UNCHANGED <<s_retry_num, s_retry_delay_ms, s_connection_requested, wifi_ret,
                   drv, evq, whist>>

\* wifi_task runs from wifi_module_init on; it touches nothing but the
\* variables its steps name
TaskFrame == s_wifi_task_handle # "NULL" /\ UNCHANGED <<s_wifi_initialized, api_pc, api_ret, mvars, pvars, lvars>>

WifiTaskLoop == TaskFrame /\ wifi_task_loop

WifiTaskRetryDelay == TaskFrame /\ wifi_task_retry_delay

WifiTaskAttempt == TaskFrame /\ wifi_task_attempt

WifiTaskHandleRet == TaskFrame /\ wifi_task_handle_ret

WifiTaskRssi == TaskFrame /\ wifi_task_rssi

\* ------------------------------------------------------------------------
\* The API calls of an initialized module
\* ------------------------------------------------------------------------
wifi_module_connect ==
    /\ s_wifi_initialized
    /\ IF s_wifi_info.status = "CONNECTED"
       THEN UNCHANGED <<s_wifi_info, s_retry_num, s_retry_delay_ms,
                        s_connection_requested, drv, evq, whist>>
       ELSE \E ret \in {"ESP_OK", "ESP_FAIL"} :
              LET r == esp_wifi_start(drv, evq, ret)
              IN  /\ s_retry_num' = 0
                  /\ s_retry_delay_ms' = CONFIG_WIFI_INITIAL_RETRY_MS
                  /\ s_wifi_info' = [s_wifi_info EXCEPT
                                       !.retry_count = 0,
                                       !.status = IF r.ret = "ESP_OK" THEN "CONNECTING"
                                                  ELSE "ERROR"]
                  /\ s_connection_requested' = (r.ret = "ESP_OK")
                  /\ drv' = r.drv
                  /\ evq' = r.evq
                  /\ whist' = WHistReset

\* wifi_get_info: a copy of the status record
wifi_get_info == s_wifi_info

\* wifi_module_disconnect and wifi_module_reconnect call esp_wifi_disconnect
\* and go on afterwards.  The event the driver posts can be handled before the
\* call returns to them (the event loop does not wait for the caller), so each
\* is two steps: up to and including the driver call, and the rest.
wifi_module_disconnect ==
    /\ s_wifi_initialized
    /\ s_connection_requested' = FALSE
    /\ \E ret \in esp_wifi_disconnect_rets(drv) :
         LET r == esp_wifi_disconnect(drv, evq, ret)
         IN  /\ drv' = r.drv
             /\ evq' = r.evq
             /\ api_ret' = ret
    /\ api_pc' = "disconnect_return"
    /\ whist' = [whist EXCEPT !.streak = 0]
    /\ UNCHANGED <<s_wifi_info, s_retry_num, s_retry_delay_ms>>

\* variant: the address is not cleared
wifi_module_disconnect_return_keeps_ip ==
    /\ api_pc = "disconnect_return"
    /\ IF api_ret = "ESP_OK"
       THEN /\ s_wifi_info' = [s_wifi_info EXCEPT !.status = "DISCONNECTED",
                                                  !.rssi = INT8_MIN,
                                                  !.retry_count = 0]
            /\ s_retry_num' = 0
            /\ s_retry_delay_ms' = CONFIG_WIFI_INITIAL_RETRY_MS
            /\ whist' = WHistReset
       ELSE UNCHANGED <<s_wifi_info, s_retry_num, s_retry_delay_ms, whist>>
    /\ api_pc' = "idle"
    /\ api_ret' = "NONE"
    /\ UNCHANGED <<s_connection_requested, drv, evq>>

wifi_module_disconnect_return ==
    /\ api_pc = "disconnect_return"
    /\ IF api_ret = "ESP_OK"
       THEN /\ s_wifi_info' = [status |-> "DISCONNECTED", rssi |-> INT8_MIN,
                               retry_count |-> 0, ip_address |-> ""]
            /\ s_retry_num' = 0
            /\ s_retry_delay_ms' = CONFIG_WIFI_INITIAL_RETRY_MS
            /\ whist' = WHistReset
       ELSE UNCHANGED <<s_wifi_info, s_retry_num, s_retry_delay_ms, whist>>
    /\ api_pc' = "idle"
    /\ api_ret' = "NONE"
    /\ UNCHANGED <<s_connection_requested, drv, evq>>

wifi_module_reconnect ==
    /\ s_wifi_initialized
    /\ s_retry_num' = 0
    /\ s_retry_delay_ms' = CONFIG_WIFI_INITIAL_RETRY_MS
    /\ s_connection_requested' = TRUE
    /\ whist' = WHistReset
    /\ IF s_wifi_info.status = "CONNECTED"
       THEN /\ \E ret \in esp_wifi_disconnect_rets(drv) :
                 LET r == esp_wifi_disconnect(drv, evq, ret)
                 IN  drv' = r.drv /\ evq' = r.evq
            /\ s_wifi_info' = [s_wifi_info EXCEPT !.retry_count = 0]
            /\ api_pc' = "reconnect_return"
       ELSE /\ s_wifi_info' = [s_wifi_info EXCEPT !.retry_count = 0,
                                                  !.status = "CONNECTING"]
            /\ UNCHANGED <<drv, evq, api_pc>>
    /\ UNCHANGED api_ret

wifi_module_reconnect_return ==
    /\ api_pc = "reconnect_return"
    /\ s_wifi_info' = [s_wifi_info EXCEPT !.status = "CONNECTING"]
    /\ api_pc' = "idle"
    /\ UNCHANGED <<s_retry_num, s_retry_delay_ms, s_connection_requested, api_ret,
                   drv, evq, whist>>

\* the API is called from one task: a call begins when the previous one has
\* returned
ApiFrame == UNCHANGED <<s_wifi_initialized, wifi_pc, wifi_ret, rssi_update_counter, mvars, pvars, lvars>>

ApiConnect ==
    /\ api_pc = "idle" /\ Len(evq) < MaxEvq
    /\ wifi_module_connect /\ UNCHANGED <<api_pc, api_ret>> /\ ApiFrame

ApiDisconnect == api_pc = "idle" /\ Len(evq) < MaxEvq /\ wifi_module_disconnect /\ ApiFrame

ApiDisconnectReturn == wifi_module_disconnect_return /\ ApiFrame

ApiReconnect == api_pc = "idle" /\ Len(evq) < MaxEvq /\ wifi_module_reconnect /\ ApiFrame

ApiReconnectReturn == wifi_module_reconnect_return /\ ApiFrame

ApiCall ==
    \/ ApiConnect \/ ApiDisconnect \/ ApiDisconnectReturn
    \/ ApiReconnect \/ ApiReconnectReturn

\* the first wifi_module_connect() after wifi_module_init
FirstConnect ==
    /\ s_wifi_info.status = "DISCONNECTED" /\ ~drv.started
    /\ ApiConnect

\* ------------------------------------------------------------------------
\* The driver's own steps: the outcome of a connection attempt, and the loss
\* of an established link
\* ------------------------------------------------------------------------
DriverFrame ==
    UNCHANGED <<s_wifi_info, s_retry_num, s_wifi_initialized, s_connection_requested,
                s_retry_delay_ms, wifi_pc, wifi_ret, rssi_update_counter, api_pc,
                api_ret, whist, mvars, pvars, lvars>>

LinkEstablished ==
    /\ drv.link = "connecting" /\ Len(evq) < MaxEvq
    /\ \E r \in RssiVals : drv' = [drv EXCEPT !.link = "connected", !.rssi = r]
    /\ evq' = Post(evq, GotIp)
    /\ DriverFrame

LinkFailed ==
    /\ drv.link = "connecting" /\ Len(evq) < MaxEvq
    /\ drv' = [drv EXCEPT !.link = "idle"]
    /\ evq' = Post(evq, StaDisconnected("NO_AP_FOUND"))
    /\ DriverFrame

LinkLost ==
    /\ drv.link = "connected" /\ Len(evq) < MaxEvq
    /\ drv' = [drv EXCEPT !.link = "idle"]
    /\ evq' = Post(evq, StaDisconnected("BEACON_TIMEOUT"))
    /\ DriverFrame

\* ------------------------------------------------------------------------
\* Specifications of the gesture detector
\* ------------------------------------------------------------------------
MaxClock == TaskStartMs + (MaxTicks - 1) * CONFIG_MPU6050_POLL_INTERVAL_MS

MaxShakeClock == TaskStartMs + (MaxShakeTicks - 1) * CONFIG_MPU6050_POLL_INTERVAL_MS

MotionTick ==
    /\ clock <= MaxClock
    /\ \E smp \in Samples : motion_detection_task(smp[1], smp[2], smp[3])
    /\ UNCHANGED <<wvars, pvars, lvars>>

MotionReadFailed == clock <= MaxClock /\ motion_read_failed /\ UNCHANGED <<wvars, pvars, lvars>>

MotionNext == MotionTick \/ MotionReadFailed

ShakeTick ==
    /\ clock <= MaxShakeClock
    /\ \E smp \in ShakeSamples : motion_detection_task(smp[1], smp[2], smp[3])
    /\ UNCHANGED <<wvars, pvars, lvars>>

ShakeReadFailed == clock <= MaxShakeClock /\ motion_read_failed /\ UNCHANGED <<wvars, pvars, lvars>>

ShakeNext == ShakeTick \/ ShakeReadFailed

\* ------------------------------------------------------------------------
\* The presence detector: pir_monitoring_task
\* ------------------------------------------------------------------------
\* pir_status as initialised statically and by pir_module_init; the task
\* first runs within the first second after boot
PirInit ==
    /\ pir_status = [motion_detected |-> FALSE, last_motion_time |-> 0,
                     no_motion_duration |-> 0]
    /\ pir_clock = 0
    /\ pir_hist = [ticks |-> 0, current_motion |-> FALSE, now |-> 0, edge |-> FALSE]

\* variant: the milliseconds within the second
pir_get_time_seconds_millis(ms) == ms % 1000

\* get_time_seconds of the PIR module, at timer value ms (uint32_t seconds;
\* the explored times are far below 2^32)
pir_get_time_seconds(ms) == ms \div 1000

\* variant: the duration is not reset when motion begins
pir_monitoring_task_no_reset(current_motion) ==
    LET current_time == pir_get_time_seconds(pir_clock)
        stopped == IF ~current_motion /\ pir_status.motion_detected
                   THEN [pir_status EXCEPT !.motion_detected = FALSE,
                                           !.last_motion_time = current_time]
                   ELSE pir_status
    IN  /\ pir_status' =
              IF current_motion
              THEN IF ~pir_status.motion_detected
                   THEN [pir_status EXCEPT !.motion_detected = TRUE,
                                           !.last_motion_time = current_time]
                   ELSE pir_status
              ELSE IF stopped.last_motion_time > 0
                   THEN [stopped EXCEPT !.no_motion_duration =
                            current_time - stopped.last_motion_time]
                   ELSE stopped
        /\ pir_hist' = [ticks |-> pir_hist.ticks + 1, current_motion |-> current_motion,
                        now |-> current_time,
                        edge |-> pir_hist.edge
                                   \/ current_motion # pir_status.motion_detected]

\* one iteration of the loop of pir_monitoring_task with GPIO reading
\* current_motion (lines 45-69)
pir_monitoring_task(current_motion) ==
    LET current_time == pir_get_time_seconds(pir_clock)
        stopped == IF ~current_motion /\ pir_status.motion_detected
                   THEN [pir_status EXCEPT !.motion_detected = FALSE,
                                           !.last_motion_time = current_time]
                   ELSE pir_status
    IN  /\ pir_status' =
              IF current_motion
              THEN IF ~pir_status.motion_detected
                   THEN [pir_status EXCEPT !.motion_detected = TRUE,
                                           !.last_motion_time = current_time,
                                           !.no_motion_duration = 0]
                   ELSE pir_status
              ELSE IF stopped.last_motion_time > 0
                   THEN [stopped EXCEPT !.no_motion_duration =
                            current_time - stopped.last_motion_time]
                   ELSE stopped
        /\ pir_hist' = [ticks |-> pir_hist.ticks + 1, current_motion |-> current_motion,
                        now |-> current_time,
                        edge |-> pir_hist.edge
                                   \/ current_motion # pir_status.motion_detected]

\* vTaskDelay(pdMS_TO_TICKS(500)): the task runs again after the period, or
\* later when it is kept from the CPU
PirDelays == {PIR_POLL_INTERVAL_MS, 3 * PIR_POLL_INTERVAL_MS}

MaxPirClock == MaxPirTicks * PIR_POLL_INTERVAL_MS

PirTick ==
    /\ pir_clock <= MaxPirClock
    /\ \E current_motion \in BOOLEAN : pir_monitoring_task(current_motion)
    /\ \E d \in PirDelays : pir_clock' = pir_clock + d
    /\ UNCHANGED <<mvars, wvars, lvars>>

PirNext == PirTick

\* ========================================================================
\* Life cycle of the modules: init, deinit and the status strings
\* ========================================================================
\* The state after a successful init of every module.
LifeInit ==
    /\ module_initialized = TRUE /\ mpu6050_handle = "DEVICE"
    /\ motion_task_handle = "TASK" /\ i2c_installed = TRUE
    /\ pir_module_initialized = TRUE /\ pir_task_handle = "TASK"
    /\ s_wifi_task_handle = "TASK" /\ handler_registered = TRUE
    /\ time_module_initialized = TRUE /\ rtc_available = TRUE
    /\ current_status = "TIME_STATUS_OK" /\ time_i2c_installed = TRUE
    /\ life = [focus |-> "none", op |-> "none", ret |-> "NONE", out |-> "none",
               buffer |-> "NULL", size |-> 0, calls |-> 0, mpu_fresh |-> TRUE,
               mpu_fault |-> "none"]

\* The modules share no variable, so the steps of different modules commute:
\* the life cycle of each module is explored with the others at rest.  The
\* module is chosen by the first step.
LifeModules == {"mpu", "pir", "wifi", "time"}

ChooseFocus ==
    /\ life.focus = "none"
    /\ \E m \in LifeModules : life' = [life EXCEPT !.focus = m]
    /\ UNCHANGED <<mvars, wvars, pvars, module_initialized, mpu6050_handle,
                   motion_task_handle, i2c_installed, pir_module_initialized,
                   pir_task_handle, s_wifi_task_handle, handler_registered,
                   time_module_initialized, rtc_available, current_status,
                   time_i2c_installed>>

\* a step of module m is taken when the previous call has returned and its
\* result has been looked at
Focus(m) == life.focus = m /\ life.op = "none"

\* the record of a call: the function, what it returned and what it wrote to
\* the caller's buffer
Called(op, ret, out) == [life EXCEPT !.op = op, !.ret = ret, !.out = out]

\* the caller goes on after the call
Returned ==
    /\ life.op # "none"
    /\ life' = [life EXCEPT !.op = "none", !.ret = "NONE", !.out = "none",
                            !.buffer = "NULL", !.size = 0]
    /\ UNCHANGED <<mvars, wvars, pvars, module_initialized, mpu6050_handle,
                   motion_task_handle, i2c_installed, pir_module_initialized,
                   pir_task_handle, s_wifi_task_handle, handler_registered,
                   time_module_initialized, rtc_available, current_status,
                   time_i2c_installed>>

\* a call of init or deinit is counted
Counted(l) == [l EXCEPT !.calls = @ + 1]

\* buffers passed to the status-string functions: a null pointer or a buffer
\* of the capacity given with it
Buffers == {"NULL", "BUFFER"}

\* buffer capacities passed to the status-string functions
BufferSizes == {0, STATUS_STRING_MIN - 1, STATUS_STRING_MIN}

\* snprintf(buffer, size, text): nothing is written for size 0, and the text
\* is cut to size - 1 characters
snprintf(size, text) ==
    IF size = 0 THEN "none"
    ELSE IF size > Len(text) THEN text
    ELSE SubSeq(text, 1, size - 1)

\* ------------------------------------------------------------------------
\* MPU6050
\* ------------------------------------------------------------------------
\* the step of mpu6050_module_init that fails ("none": all succeed)
MpuInitFaults == {"none", "i2c_param_config", "i2c_driver_install", "mpu6050_create",
                  "mpu6050_wake_up", "mpu6050_config", "xTaskCreate"}

\* variant: the published status is cleared before the test of module_initialized
mpu6050_module_init_clears_first(fault) ==
    LET installFails == fault = "i2c_driver_install" \/ i2c_installed
        failed == CASE module_initialized -> life.mpu_fault
                    [] fault = "i2c_param_config" -> fault
                    [] installFails -> "i2c_driver_install"
                    [] OTHER -> fault
        ret == IF module_initialized \/ failed = "none" THEN "ESP_OK" ELSE "ESP_FAIL"
        installed == ~module_initialized /\ fault # "i2c_param_config" /\ ~installFails
        statusCleared == module_initialized \/ (installed /\ fault \in {"none", "xTaskCreate"})
        started == installed /\ fault = "none"
    IN  /\ i2c_installed' = (i2c_installed \/ installed)
        /\ mpu6050_handle' = IF started THEN "DEVICE"
                             ELSE IF installed THEN "NULL" ELSE mpu6050_handle
        /\ motion_status' = IF statusCleared
                            THEN [shake_detected |-> FALSE, tap_detected |-> FALSE,
                                  last_motion_time |-> 0]
                            ELSE motion_status
        /\ motion_task_handle' = IF started THEN "TASK" ELSE motion_task_handle
        /\ module_initialized' = (module_initialized \/ started)
        /\ life' = Counted([Called("mpu6050_module_init", ret, "none")
                               EXCEPT !.mpu_fresh = life.mpu_fresh \/ started,
                                      !.mpu_fault = failed])
        /\ UNCHANGED <<clock, prev_ax, prev_ay, prev_az, first_run, prev_tap_z,
                       tap_first_run, last_shake_activity_time, last_tap_time,
                       tap_display_start, shake_start_time, shake_display_start,
                       is_shaking, hist>>

\* mpu6050_module_init with the failing step fault; i2c_driver_install also
\* fails when the driver of the port is still installed
mpu6050_module_init(fault) ==
    LET installFails == fault = "i2c_driver_install" \/ i2c_installed
        failed == CASE module_initialized -> life.mpu_fault
                    [] fault = "i2c_param_config" -> fault
                    [] installFails -> "i2c_driver_install"
                    [] OTHER -> fault
        ret == IF module_initialized \/ failed = "none" THEN "ESP_OK" ELSE "ESP_FAIL"
        installed == ~module_initialized /\ fault # "i2c_param_config" /\ ~installFails
        statusCleared == installed /\ fault \in {"none", "xTaskCreate"}
        started == installed /\ fault = "none"
    IN  /\ i2c_installed' = (i2c_installed \/ installed)
        /\ mpu6050_handle' = IF started THEN "DEVICE"
                             ELSE IF installed THEN "NULL" ELSE mpu6050_handle
        /\ motion_status' = IF statusCleared
                            THEN [shake_detected |-> FALSE, tap_detected |-> FALSE,
                                  last_motion_time |-> 0]
                            ELSE motion_status
        /\ motion_task_handle' = IF started THEN "TASK" ELSE motion_task_handle
        /\ module_initialized' = (module_initialized \/ started)
        /\ life' = Counted([Called("mpu6050_module_init", ret, "none")
                               EXCEPT !.mpu_fresh = life.mpu_fresh \/ started,
                                      !.mpu_fault = failed])
        /\ UNCHANGED <<clock, prev_ax, prev_ay, prev_az, first_run, prev_tap_z,
                       tap_first_run, last_shake_activity_time, last_tap_time,
                       tap_display_start, shake_start_time, shake_display_start,
                       is_shaking, hist>>

\* variant: the task and the device handle are kept
mpu6050_module_deinit_keeps_task ==
    /\ IF module_initialized
       THEN /\ UNCHANGED <<motion_task_handle, mpu6050_handle>>
            /\ i2c_installed' = FALSE
            /\ module_initialized' = FALSE
       ELSE UNCHANGED <<motion_task_handle, mpu6050_handle, i2c_installed,
                        module_initialized>>
    /\ life' = Counted(Called("mpu6050_module_deinit", "ESP_OK", "none"))
    /\ UNCHANGED mvars

\* mpu6050_module_deinit
mpu6050_module_deinit ==
    /\ IF module_initialized
       THEN /\ motion_task_handle' = "NULL"
            /\ mpu6050_handle' = "NULL"
            /\ i2c_installed' = FALSE
            /\ module_initialized' = FALSE
       ELSE UNCHANGED <<motion_task_handle, mpu6050_handle, i2c_installed,
                        module_initialized>>
    /\ life' = Counted(Called("mpu6050_module_deinit", "ESP_OK", "none"))
    /\ UNCHANGED mvars

\* mpu6050_get_status_string(buffer, buffer_size): the possible outcomes, each
\* the returned code and the text left in the buffer.  In the error branch
\* snprintf is called on the buffer as it is: with a null buffer and a size
\* above 0 the write through the null pointer is undefined, the call returns
\* the error or the program is stopped by the exception.
mpu6050_get_status_string(buffer, size) ==
    IF ~module_initialized \/ buffer = "NULL" \/ size < STATUS_STRING_MIN
    THEN IF buffer = "NULL"
         THEN IF size = 0 THEN {[ret |-> "ESP_FAIL", out |-> "none"]}
              ELSE {[ret |-> "ESP_FAIL", out |-> "none"],
                    [ret |-> "EXCEPTION", out |-> "none"]}
         ELSE {[ret |-> "ESP_FAIL", out |-> snprintf(size, "MPU: Error")]}
    ELSE IF mpu6050_handle = "NULL"
    THEN {[ret |-> "ESP_OK", out |-> snprintf(size, "MPU: Offline")]}
    ELSE {[ret |-> "ESP_OK",
           out |-> snprintf(size, IF motion_status.tap_detected THEN "MPU: Tap"
                                  ELSE IF motion_status.shake_detected THEN "MPU: Shake"
                                  ELSE "MPU: Ready")]}

MpuFrame == UNCHANGED <<wvars, pvars, pir_module_initialized, pir_task_handle,
                        s_wifi_task_handle, handler_registered,
                        time_module_initialized, rtc_available, current_status,
                        time_i2c_installed>>

MpuInit ==
    /\ Focus("mpu") /\ life.calls < MaxLifeCalls
    /\ \E fault \in MpuInitFaults : mpu6050_module_init(fault)
    /\ MpuFrame

MpuDeinit ==
    /\ Focus("mpu") /\ life.calls < MaxLifeCalls
    /\ mpu6050_module_deinit
    /\ MpuFrame

MpuGetStatusString ==
    /\ Focus("mpu")
    /\ \E buffer \in Buffers, size \in BufferSizes :
         \E r \in mpu6050_get_status_string(buffer, size) :
             life' = [Called("mpu6050_get_status_string", r.ret, r.out)
                         EXCEPT !.buffer = buffer, !.size = size]
    /\ UNCHANGED <<mvars, module_initialized, mpu6050_handle, motion_task_handle,
                   i2c_installed>>
    /\ MpuFrame

MaxLifeClock == TaskStartMs + (MaxLifeTicks - 1) * CONFIG_MPU6050_POLL_INTERVAL_MS

\* an iteration of motion_detection_task, which runs while the task exists
\* and reads the sensor while the handle is set
MpuTick ==
    /\ Focus("mpu") /\ motion_task_handle # "NULL" /\ mpu6050_handle # "NULL"
    /\ clock <= MaxLifeClock
    /\ \E smp \in Samples : motion_detection_task(smp[1], smp[2], smp[3])
    /\ life' = [life EXCEPT !.mpu_fresh = FALSE]
    /\ UNCHANGED <<module_initialized, mpu6050_handle, motion_task_handle,
                   i2c_installed>>
    /\ MpuFrame

\* ------------------------------------------------------------------------
\* PIR
\* ------------------------------------------------------------------------
PirInitFaults == {"none", "gpio_config", "xTaskCreate"}

\* pir_module_init with the failing step fault
pir_module_init(fault) ==
    IF pir_module_initialized
    THEN /\ life' = Counted(Called("pir_module_init", "ESP_OK", "none"))
         /\ UNCHANGED <<pir_status, pir_task_handle, pir_module_initialized>>
    ELSE IF fault = "gpio_config"
    THEN /\ life' = Counted(Called("pir_module_init", "ESP_FAIL", "none"))
         /\ UNCHANGED <<pir_status, pir_task_handle, pir_module_initialized>>
    ELSE /\ pir_status' = [motion_detected |-> FALSE, last_motion_time |-> 0,
                           no_motion_duration |-> 0]
         /\ pir_task_handle' = IF fault = "none" THEN "TASK" ELSE pir_task_handle
         /\ pir_module_initialized' = (fault = "none")
         /\ life' = Counted(Called("pir_module_init",
                                   IF fault = "none" THEN "ESP_OK" ELSE "ESP_FAIL",
                                   "none"))

\* pir_module_deinit
pir_module_deinit ==
    /\ IF pir_module_initialized
       THEN pir_task_handle' = "NULL" /\ pir_module_initialized' = FALSE
       ELSE UNCHANGED <<pir_task_handle, pir_module_initialized>>
    /\ life' = Counted(Called("pir_module_deinit", "ESP_OK", "none"))

\* pir_get_status_string(buffer, buffer_size)
pir_get_status_string(buffer, size) ==
    IF ~pir_module_initialized \/ buffer = "NULL" \/ size < STATUS_STRING_MIN
    THEN [ret |-> "ESP_FAIL", out |-> "none"]
    ELSE [ret |-> "ESP_OK",
          out |-> snprintf(size, IF pir_status.motion_detected THEN "PIR: Yes"
                                 ELSE IF pir_status.no_motion_duration = 0
                                 THEN "PIR: No"
                                 ELSE "PIR: No (Ns ago)")]

PirFrame == UNCHANGED <<mvars, wvars, module_initialized, mpu6050_handle,
                        motion_task_handle, i2c_installed, s_wifi_task_handle,
                        handler_registered, time_module_initialized, rtc_available,
                        current_status, time_i2c_installed>>

PirModuleInit ==
    /\ Focus("pir") /\ life.calls < MaxLifeCalls
    /\ \E fault \in PirInitFaults :
          /\ pir_module_init(fault)
          /\ pir_hist' = IF pir_module_initialized \/ fault = "gpio_config"
                         THEN pir_hist ELSE [pir_hist EXCEPT !.edge = FALSE]
    /\ UNCHANGED pir_clock
    /\ PirFrame

PirModuleDeinit ==
    /\ Focus("pir") /\ life.calls < MaxLifeCalls
    /\ pir_module_deinit
    /\ UNCHANGED <<pir_status, pir_clock, pir_hist>>
    /\ PirFrame

PirGetStatusString ==
    /\ Focus("pir")
    /\ \E buffer \in Buffers, size \in BufferSizes :
         LET r == pir_get_status_string(buffer, size)
         IN  life' = [Called("pir_get_status_string", r.ret, r.out)
                         EXCEPT !.buffer = buffer, !.size = size]
    /\ UNCHANGED <<pvars, pir_module_initialized, pir_task_handle>>
    /\ PirFrame

MaxLifePirClock == MaxLifeTicks * PIR_POLL_INTERVAL_MS

\* an iteration of pir_monitoring_task, which runs while the task exists
PirLifeTick ==
    /\ Focus("pir") /\ pir_task_handle # "NULL"
    /\ pir_clock <= MaxLifePirClock
    /\ \E current_motion \in BOOLEAN : pir_monitoring_task(current_motion)
    /\ \E d \in PirDelays : pir_clock' = pir_clock + d
    /\ UNCHANGED <<pir_module_initialized, pir_task_handle, life>>
    /\ PirFrame

\* ------------------------------------------------------------------------
\* Time module
\* ------------------------------------------------------------------------
\* ds3231_init: the I2C driver is installed, then the DS3231 is probed
\* (found: it answers); an error is returned when the driver cannot be
\* installed, which is the case when it is installed already
ds3231_init(found) ==
    IF time_i2c_installed
    THEN UNCHANGED <<time_i2c_installed, rtc_available, current_status>>
    ELSE /\ time_i2c_installed' = TRUE
         /\ rtc_available' = found
         /\ current_status' = IF found THEN "TIME_STATUS_OK"
                              ELSE "TIME_STATUS_RTC_ERROR"

\* time_module_init: the result of ds3231_init is logged only
time_module_init(found) ==
    /\ IF time_module_initialized
       THEN UNCHANGED <<time_i2c_installed, rtc_available, current_status,
                        time_module_initialized>>
       ELSE ds3231_init(found) /\ time_module_initialized' = TRUE
    /\ life' = Counted(Called("time_module_init", "ESP_OK", "none"))

\* time_module_deinit: the I2C driver is deleted only when the RTC was found
time_module_deinit ==
    /\ IF time_module_initialized
       THEN /\ time_i2c_installed' = (time_i2c_installed /\ ~rtc_available)
            /\ rtc_available' = FALSE
            /\ time_module_initialized' = FALSE
            /\ current_status' = "TIME_STATUS_NOT_SET"
       ELSE UNCHANGED <<time_i2c_installed, rtc_available, current_status,
                        time_module_initialized>>
    /\ life' = Counted(Called("time_module_deinit", "ESP_OK", "none"))

TimeFrame == UNCHANGED <<mvars, wvars, pvars, module_initialized, mpu6050_handle,
                         motion_task_handle, i2c_installed, pir_module_initialized,
                         pir_task_handle, s_wifi_task_handle, handler_registered>>

TimeModuleInit ==
    /\ Focus("time") /\ life.calls < MaxLifeCalls
    /\ \E found \in BOOLEAN : time_module_init(found)
    /\ TimeFrame

TimeModuleDeinit ==
    /\ Focus("time") /\ life.calls < MaxLifeCalls
    /\ time_module_deinit
    /\ TimeFrame

\* ------------------------------------------------------------------------
\* Wi-Fi
\* ------------------------------------------------------------------------
\* %d of snprintf
RECURSIVE NatToStr(_)
NatToStr(n) ==
    LET digit == <<"0", "1", "2", "3", "4", "5", "6", "7", "8", "9">>
    IN  IF n < 10 THEN digit[n + 1] ELSE NatToStr(n \div 10) \o digit[(n % 10) + 1]

IntToStr(n) == IF n < 0 THEN "-" \o NatToStr(-n) ELSE NatToStr(n)

\* the text of wifi_get_status_string for the status record info
wifi_status_text(info) ==
    CASE info.status = "DISCONNECTED" -> "WiFi: Off"
      [] info.status = "CONNECTING" ->
            "WiFi: Connecting... (" \o IntToStr(info.retry_count) \o "/"
               \o IntToStr(CONFIG_WIFI_MAXIMUM_RETRY) \o ")"
      [] info.status = "CONNECTED" ->
            (IF info.rssi > -50 THEN "WiFi: Excellent ("
             ELSE IF info.rssi > -70 THEN "WiFi: Good ("
             ELSE IF info.rssi > -80 THEN "WiFi: Fair ("
             ELSE "WiFi: Weak (") \o IntToStr(info.rssi) \o " dBm)"
      [] info.status = "FAILED" -> "WiFi: Failed"
      [] info.status = "ERROR" -> "WiFi: Error"
      [] OTHER -> "WiFi: Unknown"

\* wifi_get_status_string(buffer, buffer_size)
wifi_get_status_string(buffer, size) ==
    IF buffer = "NULL" \/ size = 0
    THEN [ret |-> "ESP_ERR_INVALID_ARG", out |-> "none"]
    ELSE [ret |-> "ESP_OK", out |-> snprintf(size, wifi_status_text(s_wifi_info))]

\* wifi_module_init.  On an initialized module it returns at once.  Otherwise
\* it runs ESP_ERROR_CHECK(esp_event_loop_create_default()); the default event
\* loop, created by the first init, is never deleted by wifi_module_deinit, so
\* that call fails and ESP_ERROR_CHECK stops the program.
wifi_module_init ==
    /\ life' = Counted([Called("wifi_module_init",
                               IF s_wifi_initialized THEN "ESP_OK" ELSE "ABORT", "none")
                           EXCEPT !.focus = IF s_wifi_initialized THEN @ ELSE "halted"])
    /\ UNCHANGED <<wvars, s_wifi_task_handle, handler_registered>>

\* wifi_module_deinit up to and including esp_wifi_stop: the task is deleted
\* and the station is stopped, which ends a link or an attempt with a
\* station-disconnected event
wifi_module_deinit ==
    IF ~s_wifi_initialized
    THEN /\ life' = Counted(Called("wifi_module_deinit", "ESP_OK", "none"))
         /\ UNCHANGED <<wvars, s_wifi_task_handle>>
    ELSE /\ s_connection_requested' = FALSE
         /\ s_wifi_task_handle' = "NULL"
         /\ wifi_pc' = "loop" /\ wifi_ret' = "NONE" /\ rssi_update_counter' = 0
         /\ drv' = [drv EXCEPT !.started = FALSE, !.link = "idle"]
         /\ evq' = IF drv.link # "idle" THEN Post(evq, StaDisconnected("ASSOC_LEAVE"))
                   ELSE evq
         /\ api_pc' = "deinit_return"
         /\ UNCHANGED <<s_wifi_info, s_retry_num, s_wifi_initialized,
                        s_retry_delay_ms, api_ret, whist, life>>

\* the rest of wifi_module_deinit: the handlers are unregistered and the
\* module is marked uninitialized
wifi_module_deinit_return ==
    /\ api_pc = "deinit_return"
    /\ handler_registered' = FALSE
    /\ s_wifi_initialized' = FALSE
    /\ api_pc' = "idle"
    /\ life' = Counted(Called("wifi_module_deinit", "ESP_OK", "none"))
    /\ UNCHANGED <<s_wifi_info, s_retry_num, s_connection_requested, s_retry_delay_ms,
                   wifi_pc, wifi_ret, rssi_update_counter, api_ret, drv, evq, whist,
                   s_wifi_task_handle>>

WifiLifeFrame == UNCHANGED <<mvars, pvars, module_initialized, mpu6050_handle,
                             motion_task_handle, i2c_installed, pir_module_initialized,
                             pir_task_handle, time_module_initialized, rtc_available,
                             current_status, time_i2c_installed>>

WifiModuleInit ==
    /\ Focus("wifi") /\ api_pc = "idle" /\ life.calls < MaxLifeCalls
    /\ wifi_module_init
    /\ WifiLifeFrame

WifiModuleDeinit ==
    /\ Focus("wifi") /\ api_pc = "idle" /\ life.calls < MaxLifeCalls
    /\ Len(evq) < MaxEvq
    /\ wifi_module_deinit
    /\ UNCHANGED handler_registered
    /\ WifiLifeFrame

WifiModuleDeinitReturn ==
    /\ Focus("wifi")
    /\ wifi_module_deinit_return
    /\ WifiLifeFrame

WifiGetStatusString ==
    /\ Focus("wifi")
    /\ \E buffer \in Buffers, size \in BufferSizes :
         LET r == wifi_get_status_string(buffer, size)
         IN  life' = [Called("wifi_get_status_string", r.ret, r.out)
                         EXCEPT !.buffer = buffer, !.size = size]
    /\ UNCHANGED <<wvars, s_wifi_task_handle, handler_registered>>
    /\ WifiLifeFrame

\* the connection manager of the module in focus
LifeWifiTaskLoop == Focus("wifi") /\ WifiTaskLoop

LifeWifiTaskRetryDelay == Focus("wifi") /\ WifiTaskRetryDelay

LifeWifiTaskAttempt == Focus("wifi") /\ WifiTaskAttempt

LifeWifiTaskHandleRet == Focus("wifi") /\ WifiTaskHandleRet

LifeWifiTaskRssi == Focus("wifi") /\ WifiTaskRssi

LifeEventLoopDispatch == Focus("wifi") /\ EventLoopDispatch

LifeApiConnect == Focus("wifi") /\ FirstConnect

LifeLinkEstablished == Focus("wifi") /\ LinkEstablished

LifeLinkFailed == Focus("wifi") /\ LinkFailed

Init == MotionInit /\ WifiInit /\ PirInit /\ LifeInit

\* every sample stream over Samples, MaxTicks loop iterations
SpecMotion == Init /\ [][MotionNext]_vars

LifeNext ==
    \/ ChooseFocus \/ Returned
    \/ MpuInit \/ MpuDeinit \/ MpuGetStatusString \/ MpuTick
    \/ PirModuleInit \/ PirModuleDeinit \/ PirGetStatusString \/ PirLifeTick
    \/ TimeModuleInit \/ TimeModuleDeinit
    \/ WifiModuleInit \/ WifiModuleDeinit \/ WifiModuleDeinitReturn
    \/ WifiGetStatusString
    \/ LifeWifiTaskLoop \/ LifeWifiTaskRetryDelay \/ LifeWifiTaskAttempt
    \/ LifeWifiTaskHandleRet \/ LifeWifiTaskRssi
    \/ LifeEventLoopDispatch \/ LifeApiConnect
    \/ LifeLinkEstablished \/ LifeLinkFailed

\* init, deinit, status strings and the background task of each module
SpecLife == Init /\ [][LifeNext]_vars

\* every sequence of readings, timer up to MaxPirClock
SpecPir == Init /\ [][PirNext]_vars

\* every activity pattern (streams over ShakeSamples), MaxShakeTicks loop
\* iterations: the shake sections of the loop read and write no tap state, so
\* the x-only streams produce every behaviour of the shake state machine
SpecShake == Init /\ [][ShakeNext]_vars

\* the connectivity manager: wifi_task, the event handler, the API calls and
\* the driver, interleaved in every order
WifiNext ==
    \/ WifiTaskLoop \/ WifiTaskRetryDelay \/ WifiTaskAttempt
    \/ WifiTaskHandleRet \/ WifiTaskRssi
    \/ EventLoopDispatch
    \/ ApiConnect \/ ApiDisconnect \/ ApiDisconnectReturn
    \/ ApiReconnect \/ ApiReconnectReturn
    \/ LinkEstablished \/ LinkFailed \/ LinkLost

SpecWifi == Init /\ [][WifiNext]_vars

\* ========================================================================
\* Properties of the gesture detector
\* ========================================================================

\* C1: at the end of every loop iteration the published flags tap_detected
\* and shake_detected are never both true.
C1_MutualExclusion ==
    ~(motion_status.tap_detected /\ motion_status.shake_detected)

\* C2: whenever is_shaking is true at the end of an iteration, shake_detected
\* is true and tap_detected is false (the shake wins over a tap accepted on
\* the confirming iteration).
C2_ShakeOverridesTap ==
    is_shaking => motion_status.shake_detected /\ ~motion_status.tap_detected

\* C3: a shake is promoted to confirmed only when the activity signal was
\* true on every sampled iteration from the start of the shake timer to the
\* confirming iteration, and that run lasted at least SHAKE_MIN_DURATION_MS.
C3_ConfirmOnlyAfterContinuousActivity ==
    hist.confirmed =>
        /\ ~hist.gap
        /\ hist.now - shake_start_time >= CONFIG_MPU6050_SHAKE_MIN_DURATION_MS

\* C4: from idle, while activity is present on every sampled iteration since
\* the iteration t0 that started the shake timer, shake_detected is false as
\* long as now - t0 < SHAKE_MIN_DURATION_MS and true from the first sampled
\* iteration with now - t0 >= SHAKE_MIN_DURATION_MS.
C4_ConfirmedExactlyAtMinDuration ==
    (hist.sampled /\ hist.t0 # NoTime) =>
        (motion_status.shake_detected <=>
            hist.now - hist.t0 >= CONFIG_MPU6050_SHAKE_MIN_DURATION_MS)

\* C4 witness: the run reaches exactly SHAKE_MIN_DURATION_MS and the shake is
\* confirmed on that iteration.
C4_Witness ==
    /\ hist.sampled /\ hist.t0 # NoTime /\ hist.confirmed
    /\ hist.now - hist.t0 = CONFIG_MPU6050_SHAKE_MIN_DURATION_MS
    /\ motion_status.shake_detected

\* C5: after a confirmation at tc, shake_detected is true at the end of every
\* iteration with now - tc < SHAKE_DISPLAY_MS.
C5_DisplayHold ==
    (hist.tc # NoTime /\ hist.now - hist.tc < CONFIG_MPU6050_SHAKE_DISPLAY_MS) =>
        motion_status.shake_detected

\* C5 witness: the activity timeout has reset is_shaking and the shake timer
\* before the display time has elapsed, and shake_detected is still shown.
C5_Witness ==
    /\ hist.tc # NoTime /\ hist.sampled
    /\ hist.now - hist.tc < CONFIG_MPU6050_SHAKE_DISPLAY_MS
    /\ ~is_shaking /\ shake_start_time = 0
    /\ motion_status.shake_detected

\* C6: on a sampled iteration without activity at which both
\* now - last_shake_activity_time > SHAKE_TIMEOUT_MS and SHAKE_DISPLAY_MS have
\* passed since the confirmation, shake_detected is false; and shake_detected
\* turns from false to true only on an iteration that confirms a shake.
C6_ClearedAfterTimeoutAndHold ==
    (/\ hist.sampled /\ ~hist.activity
     /\ hist.now - last_shake_activity_time > CONFIG_MPU6050_SHAKE_TIMEOUT_MS
     /\ (hist.tc = NoTime \/
         hist.now - hist.tc >= CONFIG_MPU6050_SHAKE_DISPLAY_MS))
        => ~motion_status.shake_detected

C6_StaysFalse ==
    (~motion_status.shake_detected /\ motion_status.shake_detected') => hist'.confirmed

\* C6: shake_detected is cleared no later than the first sampled iteration at
\* which both the activity timeout and the display time have elapsed, and it
\* then stays false until a new shake is confirmed.
C6_EventuallyCleared == [](C6_ClearedAfterTimeoutAndHold) /\ [][C6_StaysFalse]_vars

\* C6 witness: a confirmed shake whose activity has timed out and whose
\* display time has elapsed is no longer shown.
C6_Witness ==
    /\ hist.sampled /\ ~hist.activity
    /\ hist.tc # NoTime /\ hist.now - hist.tc >= CONFIG_MPU6050_SHAKE_DISPLAY_MS
    /\ hist.now - last_shake_activity_time > CONFIG_MPU6050_SHAKE_TIMEOUT_MS
    /\ ~motion_status.shake_detected

\* C7: while not in confirmed-shaking state, a z transient above
\* TAP_Z_THRESHOLD with no tap accepted in the TAP_DEBOUNCE_MS before it is
\* accepted as a tap on its iteration (tap_detected set, last_tap_time
\* refreshed), at whatever time since boot; and two accepted taps are more than
\* TAP_DEBOUNCE_MS apart.
C7_IsolatedTransientIsOneTap ==
    /\ (hist.sampled /\ hist.transient /\ ~hist.was_shaking /\ hist.isolated) =>
           /\ hist.tap_event
           /\ motion_status.tap_detected
           /\ last_tap_time = hist.now
    /\ hist.spaced

\* C8: after a tap accepted at ta (and none since), tap_detected is true on
\* every iteration with now - ta < TAP_DISPLAY_MS, and on a sampled iteration
\* with now - ta >= TAP_DISPLAY_MS it is false and the tap display timer is
\* cleared.
C8_TapDisplayWindow ==
    /\ (hist.ta # NoTime /\ hist.now - hist.ta < CONFIG_MPU6050_TAP_DISPLAY_MS) =>
           motion_status.tap_detected
    /\ (/\ hist.ta # NoTime /\ hist.sampled
        /\ hist.now - hist.ta >= CONFIG_MPU6050_TAP_DISPLAY_MS) =>
           (~motion_status.tap_detected /\ tap_display_start = 0)

\* C8 as amended: the same, unless a shake is confirmed on a later iteration
\* within the window: the confirmation clears tap_detected early and leaves
\* the tap display timer set.
C8_TapDisplayWindowUnlessShake ==
    /\ (/\ hist.ta # NoTime /\ ~hist.shake_after_tap
        /\ hist.now - hist.ta < CONFIG_MPU6050_TAP_DISPLAY_MS) =>
           motion_status.tap_detected
    /\ (/\ hist.ta # NoTime /\ hist.sampled
        /\ hist.now - hist.ta >= CONFIG_MPU6050_TAP_DISPLAY_MS) =>
           /\ ~motion_status.tap_detected
           /\ ~hist.shake_after_tap => tap_display_start = 0
    /\ (hist.ta # NoTime /\ hist.shake_after_tap /\ ~hist.tap_event) =>
           ~motion_status.tap_detected /\ tap_display_start = hist.ta

\* C8 witness: the display time of an accepted tap has just elapsed on a
\* sampled iteration, with no shake confirmed in between.
C8_Witness ==
    /\ hist.ta # NoTime /\ hist.sampled /\ ~hist.shake_after_tap
    /\ hist.now - hist.ta >= CONFIG_MPU6050_TAP_DISPLAY_MS
    /\ ~motion_status.tap_detected /\ tap_display_start = 0

\* ------------------------------------------------------------------------
\* Wi-Fi retry budget and backoff
\* ------------------------------------------------------------------------
RECURSIVE Pow(_, _)
Pow(b, n) == IF n = 0 THEN 1 ELSE b * Pow(b, n - 1)

\* min(CONFIG_WIFI_INITIAL_RETRY_MS * 1.5^n, CONFIG_WIFI_MAX_RETRY_MS), in
\* exact arithmetic (the quotient is exact whenever it is below the maximum)
BackoffAfter(n) ==
    IF CONFIG_WIFI_INITIAL_RETRY_MS * Pow(3, n) >= CONFIG_WIFI_MAX_RETRY_MS * Pow(2, n)
    THEN CONFIG_WIFI_MAX_RETRY_MS
    ELSE (CONFIG_WIFI_INITIAL_RETRY_MS * Pow(3, n)) \div Pow(2, n)

\* C9: once CONFIG_WIFI_MAXIMUM_RETRY consecutive connection failures have
\* been observed with no success and no API call in between, and wifi_task
\* has passed the test at the top of its loop, the status is Failed; and
\* wifi_task never calls esp_wifi_connect after that many failures.
C9_FailedAfterMaxRetries ==
    /\ (whist.streak >= CONFIG_WIFI_MAXIMUM_RETRY /\ whist.decided)
           => s_wifi_info.status = "FAILED"
    /\ ~whist.late_attempt

\* C10: after N connection failures since the retry state was last reset, the
\* retry delay is min(INITIAL * 1.5^N, MAX).
C10_BackoffFormula == s_retry_delay_ms = BackoffAfter(whist.fails)

\* ------------------------------------------------------------------------
\* Wi-Fi status transitions
\* ------------------------------------------------------------------------
\* C11: on every transition of the status into Connected, by whatever code
\* path, retry_count is 0 and the retry delay is CONFIG_WIFI_INITIAL_RETRY_MS
\* immediately afterwards.
C11_ConnectedResetsRetryState ==
    [][(s_wifi_info.status # "CONNECTED" /\ s_wifi_info'.status = "CONNECTED") =>
          /\ s_wifi_info'.retry_count = 0
          /\ s_retry_delay_ms' = CONFIG_WIFI_INITIAL_RETRY_MS]_vars

\* C12: once the status is Failed it remains Failed, and wifi_task makes no
\* connection attempt, on every step that is not an API call (a fortiori
\* until wifi_module_reconnect() is called).
C12_FailedIsTerminal ==
    [][(s_wifi_info.status = "FAILED" /\ ~ApiCall) =>
          (s_wifi_info'.status = "FAILED" /\ ~WifiTaskAttempt)]_vars

\* C13: when the event handler handles a station-disconnected event that
\* reports the loss of the link (not a requested disconnect) while the status
\* is Connected, the status is Connecting afterwards.
C13_LinkLossLeavesConnected ==
    [][(/\ s_wifi_info.status = "CONNECTED"
        /\ evq # <<>>
        /\ Head(evq) = StaDisconnected("BEACON_TIMEOUT")
        /\ EventLoopDispatch) =>
          s_wifi_info'.status = "CONNECTING"]_vars

\* C14: whenever wifi_module_reconnect() returns, from whatever status it was
\* called, retry_count = 0, the retry delay is CONFIG_WIFI_INITIAL_RETRY_MS, a
\* connection is requested and the status is Connecting; and when it was
\* called with status Connected the link is down after its driver call.
C14_ReconnectPostcondition ==
    [][/\ (ApiReconnectReturn \/ (ApiReconnect /\ api_pc' = "idle")) =>
             /\ s_retry_num' = 0
             /\ s_wifi_info'.retry_count = 0
             /\ s_retry_delay_ms' = CONFIG_WIFI_INITIAL_RETRY_MS
             /\ s_connection_requested'
             /\ s_wifi_info'.status = "CONNECTING"
       /\ (ApiReconnect /\ s_wifi_info.status = "CONNECTED") =>
             drv'.link = "idle"]_vars

WifiTask ==
    \/ WifiTaskLoop \/ WifiTaskRetryDelay \/ WifiTaskAttempt
    \/ WifiTaskHandleRet \/ WifiTaskRssi

LinkOutcome == LinkEstablished \/ LinkFailed

WifiLiveNext ==
    \/ FirstConnect
    \/ WifiTaskLoop \/ WifiTaskRetryDelay \/ WifiTaskAttempt
    \/ WifiTaskHandleRet \/ WifiTaskRssi
    \/ EventLoopDispatch
    \/ LinkEstablished \/ LinkFailed \/ LinkLost

SpecWifiLive ==
    /\ Init /\ [][WifiLiveNext]_vars
    /\ WF_vars(WifiTask) /\ WF_vars(EventLoopDispatch) /\ WF_vars(LinkOutcome)

\* C16: with no API call after wifi_module_connect() and fair scheduling of
\* wifi_task and the event handler, every state with status Connecting is
\* eventually followed by a state with status Connected or Failed.
C16_ConnectingEnds ==
    (s_wifi_info.status = "CONNECTING") ~>
        (s_wifi_info.status \in {"CONNECTED", "FAILED"})

\* C17: for every sequence of PIR readings, at the end of every iteration of
\* pir_monitoring_task motion_detected implies no_motion_duration = 0, and
\* after an iteration that read presence motion_detected is true.
C17_PresenceResetsDuration ==
    /\ pir_status.motion_detected => pir_status.no_motion_duration = 0
    /\ (pir_hist.ticks > 0 /\ pir_hist.current_motion) => pir_status.motion_detected

\* C17 witness: presence is read after an absence that had lasted two seconds
\* or more by the previous iteration
C17_Witness ==
    /\ pir_hist.ticks > 2 /\ pir_hist.current_motion
    /\ pir_status.motion_detected /\ pir_status.no_motion_duration = 0
    /\ pir_status.last_motion_time >= 4

\* C18: for every sequence of PIR readings and non-decreasing iteration
\* times, across two consecutive iterations that both read absence
\* no_motion_duration does not decrease.
C18_DurationMonotoneWhileAbsent ==
    [][(PirTick /\ pir_hist.ticks > 0 /\ ~pir_hist.current_motion
              /\ ~pir_hist'.current_motion) =>
          pir_status'.no_motion_duration >= pir_status.no_motion_duration]_vars

\* C18 witness: two consecutive absent iterations, the duration has grown
C18_Witness ==
    /\ pir_hist.ticks > 2 /\ ~pir_hist.current_motion
    /\ ~pir_status.motion_detected /\ pir_status.no_motion_duration >= 2
    /\ pir_status.last_motion_time > 0

\* C19: an iteration of motion_detection_task on which the accelerometer read
\* fails is skipped: motion_status, is_shaking, every shake and tap timer and
\* the remembered previous samples are unchanged, and no shake or tap event
\* is produced.
C19_FailedReadSkipsTick ==
    [][MotionReadFailed =>
          /\ UNCHANGED <<motion_status, is_shaking, last_shake_activity_time,
                         last_tap_time, tap_display_start, shake_start_time,
                         shake_display_start, prev_ax, prev_ay, prev_az, first_run,
                         prev_tap_z, tap_first_run>>
          /\ ~hist'.tap_event /\ ~hist'.confirmed]_vars

\* C19 witness: the read failed on an iteration at which a tap was on display
\* and a shake run was being timed
C19_Witness ==
    /\ hist.now # NoTime /\ ~hist.sampled
    /\ motion_status.tap_detected /\ shake_start_time > 0

\* mpu6050_get_motion_status: memcpy of motion_status into the caller's buffer
mpu6050_get_motion_status == motion_status

\* C20: a snapshot taken by mpu6050_get_motion_status() while the producer
\* motion_detection_task runs is coherent: it never holds shake_detected and
\* tap_detected both true.  The snapshots examined are those taken while the
\* producer is in vTaskDelay between two iterations.
C20_SnapshotCoherent ==
    LET snapshot == mpu6050_get_motion_status
    IN  ~(snapshot.shake_detected /\ snapshot.tap_detected)

\* wifi_get_rssi: the stored signal strength
wifi_get_rssi == s_wifi_info.rssi

\* C25: in every reachable state of an initialized module whose status is not
\* Connected, wifi_get_rssi() returns INT8_MIN.
C25_RssiClearedUnlessConnected ==
    (s_wifi_initialized /\ s_wifi_info.status # "CONNECTED") => wifi_get_rssi = INT8_MIN

\* C27: a link failure handled while the status is Connecting and
\* retry_count < MAX adds exactly 1 to retry_count, multiplies the delay by
\* 1.5 up to the maximum and leaves the status Connecting; and retry_count
\* changes at no other step, except to 0.
C27_FailureCountsOneRetry ==
    [][/\ (/\ evq # <<>> /\ Head(evq).id = "WIFI_EVENT_STA_DISCONNECTED"
           /\ EventLoopDispatch
           /\ s_wifi_info.status = "CONNECTING"
           /\ s_wifi_info.retry_count < CONFIG_WIFI_MAXIMUM_RETRY) =>
              /\ s_wifi_info'.retry_count = s_wifi_info.retry_count + 1
              /\ s_retry_delay_ms' = next_retry_delay(s_retry_delay_ms)
              /\ s_wifi_info'.status = "CONNECTING"
       /\ (s_wifi_info'.retry_count # s_wifi_info.retry_count) =>
              \/ s_wifi_info'.retry_count = 0
              \/ whist'.fails = whist.fails + 1]_vars

\* C28: esp_wifi_connect is called, by wifi_task or by the handler of the
\* station-start event, only in a state in which a connection is requested
\* and the status is not Connected.
C28_ConnectOnlyWhenRequested ==
    [][(\/ WifiTaskAttempt
        \/ (evq # <<>> /\ Head(evq) = StaStart /\ EventLoopDispatch)) =>
          (s_connection_requested /\ s_wifi_info.status # "CONNECTED")]_vars

\* C29: once wifi_module_disconnect() has returned with the status
\* Disconnected, the status stays Disconnected and wifi_task issues no
\* connection attempt until wifi_module_connect() or wifi_module_reconnect()
\* is called.
C29_DisconnectedStays ==
    [][(/\ s_wifi_info.status = "DISCONNECTED" /\ api_pc = "idle"
        /\ ~ApiConnect /\ ~ApiReconnect) =>
          (s_wifi_info'.status = "DISCONNECTED" /\ ~WifiTaskAttempt)]_vars

\* C30: once the got-IP event has set the status to Connected (the address
\* is stored), the status Connected is left only by the handling of a
\* station-disconnected event or by an API call; no step of wifi_task
\* replaces Connected by Connecting or Failed.
C30_ConnectedUntilEventOrCall ==
    [][(/\ s_wifi_info.status = "CONNECTED" /\ s_wifi_info.ip_address # ""
        /\ s_wifi_info'.status # "CONNECTED") =>
          \/ (evq # <<>> /\ Head(evq).id = "WIFI_EVENT_STA_DISCONNECTED"
                /\ EventLoopDispatch)
          \/ ApiCall]_vars

\* ========================================================================
\* Properties of the life cycle
\* ========================================================================

\* C21: for each of the MPU6050, PIR, Wi-Fi and time modules, init() on an
\* initialized module returns success and changes nothing: the module's
\* state variables, the published status and the background task are as
\* before the call.
C21_InitIdempotent ==
    [][/\ (MpuInit /\ module_initialized) =>
             /\ life'.ret = "ESP_OK"
             /\ UNCHANGED <<mvars, module_initialized, mpu6050_handle,
                            motion_task_handle, i2c_installed>>
       /\ (PirModuleInit /\ pir_module_initialized) =>
             /\ life'.ret = "ESP_OK"
             /\ UNCHANGED <<pvars, pir_module_initialized, pir_task_handle>>
       /\ (WifiModuleInit /\ s_wifi_initialized) =>
             /\ life'.ret = "ESP_OK"
             /\ UNCHANGED <<wvars, s_wifi_task_handle, handler_registered>>
       /\ (TimeModuleInit /\ time_module_initialized) =>
             /\ life'.ret = "ESP_OK"
             /\ UNCHANGED <<time_module_initialized, rtc_available, current_status,
                            time_i2c_installed>>]_vars

\* C21 witness: mpu6050_module_init has returned on a module that was
\* initialized before, had run its task and was displaying a tap
C21_Witness ==
    /\ life.op = "mpu6050_module_init" /\ life.ret = "ESP_OK"
    /\ module_initialized /\ ~life.mpu_fresh /\ motion_status.tap_detected
    /\ motion_task_handle = "TASK"

\* C22: for each of the MPU6050, PIR and Wi-Fi modules, deinit() on an
\* initialized module deletes the background task, releases the hardware and
\* marks the module uninitialized; while the module is uninitialized no
\* iteration of its task runs and the published status does not change
\* (other than by a new init); and deinit() on an uninitialized module
\* returns success and changes nothing.
C22_DeinitStopsTask ==
    [][/\ (MpuDeinit /\ module_initialized) =>
             /\ life'.ret = "ESP_OK" /\ ~module_initialized'
             /\ motion_task_handle' = "NULL" /\ mpu6050_handle' = "NULL"
             /\ ~i2c_installed'
       /\ (PirModuleDeinit /\ pir_module_initialized) =>
             /\ life'.ret = "ESP_OK" /\ ~pir_module_initialized'
             /\ pir_task_handle' = "NULL"
       /\ WifiModuleDeinitReturn =>
             /\ life'.ret = "ESP_OK" /\ ~s_wifi_initialized'
             /\ s_wifi_task_handle' = "NULL" /\ ~drv'.started
             /\ ~handler_registered'
       /\ (~module_initialized /\ ~MpuInit) => (~MpuTick /\ UNCHANGED motion_status)
       /\ (~pir_module_initialized /\ ~PirModuleInit) =>
             (~PirLifeTick /\ UNCHANGED pir_status)
       /\ ~s_wifi_initialized =>
             /\ ~(LifeWifiTaskLoop \/ LifeWifiTaskRetryDelay \/ LifeWifiTaskAttempt
                    \/ LifeWifiTaskHandleRet \/ LifeWifiTaskRssi)
             /\ UNCHANGED s_wifi_info
       /\ (MpuDeinit /\ ~module_initialized) =>
             /\ life'.ret = "ESP_OK"
             /\ UNCHANGED <<mvars, module_initialized, mpu6050_handle,
                            motion_task_handle, i2c_installed>>
       /\ (PirModuleDeinit /\ ~pir_module_initialized) =>
             /\ life'.ret = "ESP_OK"
             /\ UNCHANGED <<pvars, pir_module_initialized, pir_task_handle>>
       /\ (WifiModuleDeinit /\ ~s_wifi_initialized) =>
             /\ life'.ret = "ESP_OK"
             /\ UNCHANGED <<wvars, s_wifi_task_handle, handler_registered>>]_vars

\* C22 witness: mpu6050_module_deinit has returned on a module whose task had
\* run and that was displaying a tap
C22_Witness ==
    /\ life.op = "mpu6050_module_deinit" /\ life.ret = "ESP_OK"
    /\ ~module_initialized /\ motion_task_handle = "NULL" /\ mpu6050_handle = "NULL"
    /\ ~life.mpu_fresh /\ motion_status.tap_detected /\ clock <= MaxLifeClock

\* the status-string function of each module, and whether its module is
\* initialized
LifeInitialized(op) ==
    CASE op = "pir_get_status_string" -> pir_module_initialized
      [] op = "mpu6050_get_status_string" -> module_initialized
      [] op = "wifi_get_status_string" -> s_wifi_initialized
      [] OTHER -> FALSE

\* C23: for each of the PIR, MPU6050 and Wi-Fi modules,
\* get_status_string(buffer, capacity) returns success exactly when the
\* module is initialized, the buffer is not null and the capacity is at least
\* STATUS_STRING_MIN (32) bytes; otherwise it returns an error.
C23_StatusStringErrors ==
    life.op \in {"pir_get_status_string", "mpu6050_get_status_string",
                 "wifi_get_status_string"} =>
        (life.ret = "ESP_OK" <=>
            /\ LifeInitialized(life.op)
            /\ life.buffer # "NULL"
            /\ life.size >= STATUS_STRING_MIN)

\* C24: once mpu6050_module_init() has failed because the sensor does not
\* respond (mpu6050_create, mpu6050_wake_up or mpu6050_config fails),
\* mpu6050_get_status_string() with a buffer of sufficient capacity returns
\* success and writes "MPU: Offline".
C24_OfflineAfterFailedInit ==
    (/\ life.op = "mpu6050_get_status_string"
     /\ life.mpu_fault \in {"mpu6050_create", "mpu6050_wake_up", "mpu6050_config"}
     /\ life.buffer # "NULL" /\ life.size >= STATUS_STRING_MIN) =>
        (life.ret = "ESP_OK" /\ life.out = "MPU: Offline")

\* C26: after every mpu6050_module_init(), the first successfully read
\* sample produces no event: neither shake activity nor a tap is detected on
\* that iteration.
C26_ColdStart ==
    [][(MpuTick /\ life.mpu_fresh) => (~hist'.activity /\ ~hist'.tap_event)]_vars


\* ------------------------------------------------------------------------
\* Wi-Fi retry pacing
\* ------------------------------------------------------------------------
\* C31: wifi_task goes from the test at the top of its loop straight to the
\* call of esp_wifi_connect, without the backoff wait, only when no
\* connection attempt has been issued since the retry counter was last
\* reset; and it enters the backoff wait only when an attempt has been
\* issued since (every later attempt follows a wait of the retry delay).
C31_BackoffBeforeLaterAttempts ==
    [][ /\ (WifiTaskLoop /\ wifi_pc' = "attempt") => whist.attempts = 0
        /\ (WifiTaskLoop /\ wifi_pc' = "retry_delay") => whist.attempts > 0 ]_vars


\* the retry state after k attempts that all failed synchronously, in a run
\* begun by wifi_module_connect(): the code returned by the handler's call on
\* WIFI_EVENT_STA_START is discarded, and each failed call of wifi_task adds
\* one to the counter and applies one step to the delay
RECURSIVE SyncFailedRun(_)
SyncFailedRun(k) ==
    IF k <= 1
    THEN [retry_count |-> 0, delay |-> CONFIG_WIFI_INITIAL_RETRY_MS]
    ELSE LET r == SyncFailedRun(k - 1)
         IN  [retry_count |-> r.retry_count + 1, delay |-> next_retry_delay(r.delay)]

\* no address has been obtained, every attempt issued since the reset has
\* failed, all of them synchronously or all of them asynchronously, and
\* nothing is in flight
AllFailedSync ==
    /\ s_wifi_info.ip_address = ""
    /\ whist.attempts >= 1 /\ whist.mode = "sync"
    /\ wifi_pc # "handle_ret" /\ evq = <<>>

AllFailedAsync ==
    /\ s_wifi_info.ip_address = ""
    /\ whist.attempts >= 1 /\ whist.mode = "async" /\ whist.fails = whist.attempts
    /\ wifi_pc # "handle_ret" /\ evq = <<>> /\ drv.link = "idle"

\* C32: with no API call after wifi_module_connect(), after k attempts that
\* have all failed, retry_count and the retry delay are the same whether the
\* attempts failed synchronously (esp_wifi_connect returned an error) or
\* asynchronously (station-disconnected event); and after
\* CONFIG_WIFI_MAXIMUM_RETRY such attempts, once wifi_task has passed the
\* test at the top of its loop, the status is Failed in both cases.
C32_SyncAsyncSameRetry ==
    (AllFailedSync \/ AllFailedAsync) =>
        /\ s_wifi_info.retry_count = SyncFailedRun(whist.attempts).retry_count
        /\ s_retry_delay_ms = SyncFailedRun(whist.attempts).delay
        /\ (whist.attempts >= CONFIG_WIFI_MAXIMUM_RETRY /\ whist.decided)
               => s_wifi_info.status = "FAILED"


\* the retry delay stays within its bounds
RetryDelayInRange ==
    /\ CONFIG_WIFI_INITIAL_RETRY_MS <= s_retry_delay_ms
    /\ s_retry_delay_ms <= CONFIG_WIFI_MAX_RETRY_MS

\* a step that lowers the retry delay is the handling of IP_EVENT_STA_GOT_IP
\* (a success) or a step of an API call
RetryDelayLoweredOnlyByReset ==
    s_retry_delay_ms' < s_retry_delay_ms =>
        \/ evq # <<>> /\ Head(evq) = GotIp /\ EventLoopDispatch
        \/ ApiCall

\* C33: in every reachable state CONFIG_WIFI_INITIAL_RETRY_MS <=
\* s_retry_delay_ms <= CONFIG_WIFI_MAX_RETRY_MS, and across consecutive
\* failures with no success or API call in between s_retry_delay_ms never
\* decreases.
C33_RetryDelayBoundedMonotone ==
    [](RetryDelayInRange) /\ [][RetryDelayLoweredOnlyByReset]_vars

\* four consecutive failures have raised the delay to the maximum
C33_Witness ==
    /\ whist.streak >= 4 /\ whist.fails >= 4
    /\ s_retry_delay_ms = CONFIG_WIFI_MAX_RETRY_MS


\* C34: between two resets of the retry counter esp_wifi_connect is called at
\* most CONFIG_WIFI_MAXIMUM_RETRY times in total by wifi_task and the event
\* handler, and retry_count never exceeds CONFIG_WIFI_MAXIMUM_RETRY.
C34_AttemptBudget ==
    /\ whist.attempts <= CONFIG_WIFI_MAXIMUM_RETRY
    /\ s_wifi_info.retry_count <= CONFIG_WIFI_MAXIMUM_RETRY
    /\ s_retry_num <= CONFIG_WIFI_MAXIMUM_RETRY


\* ------------------------------------------------------------------------
\* Tap and shake together
\* ------------------------------------------------------------------------
\* C35: on a loop iteration that begins with is_shaking true no tap is
\* accepted, whatever the sample: tap_detected does not go from false to
\* true, last_tap_time is unchanged and the tap display timer is not
\* restarted.
C35_NoTapWhileShaking ==
    [][ (is_shaking /\ clock' # clock) =>
          /\ ~hist'.tap_event
          /\ ~(~motion_status.tap_detected /\ motion_status'.tap_detected)
          /\ last_tap_time' = last_tap_time
          /\ tap_display_start' \in {tap_display_start, 0} ]_vars

\* an iteration that began in confirmed shaking read a sample whose z change
\* exceeds the tap threshold, with no tap in the debounce window before it
C35_Witness ==
    /\ hist.sampled /\ hist.was_shaking
    /\ hist.transient /\ hist.isolated /\ ~hist.tap_event

\* C36: a tap is accepted on an iteration only if the absolute change of z
\* between that iteration's sample and the sample read successfully just
\* before it exceeds CONFIG_MPU6050_TAP_Z_THRESHOLD; this includes the first
\* iteration after a confirmed shake has ended.
C36_TapNeedsTransient == hist.tap_event => hist.transient

\* the shake timer and the flag as the iteration leaves them, against the
\* activity of the iteration and the time since the last activity
ShakeResetDue == ~hist'.activity /\ clock - last_shake_activity_time > CONFIG_MPU6050_SHAKE_TIMEOUT_MS

\* C37: shake_start_time and is_shaking are reset on a sampled iteration
\* without activity at which now - last_shake_activity_time >
\* CONFIG_MPU6050_SHAKE_TIMEOUT_MS, and on no other sampled iteration: with
\* activity the timer runs, and without activity within the timeout both are
\* left as they were.
C37_ShakeResetExactlyOnTimeout ==
    [][ (clock' # clock /\ hist'.sampled) =>
          /\ ShakeResetDue => (shake_start_time' = 0 /\ ~is_shaking')
          /\ hist'.activity => shake_start_time' # 0
          /\ ~ShakeResetDue =>
                /\ shake_start_time # 0 => shake_start_time' = shake_start_time
                /\ is_shaking => is_shaking' ]_vars

\* the last iteration ended a confirmed shake by the activity timeout
C37_Witness ==
    /\ hist.sampled /\ ~hist.activity /\ hist.was_shaking
    /\ ~is_shaking /\ shake_start_time = 0
    /\ hist.now - last_shake_activity_time > CONFIG_MPU6050_SHAKE_TIMEOUT_MS


\* ------------------------------------------------------------------------
\* The gesture detector across deinit/init cycles: the loop iterations of
\* motion_detection_task while the task exists, and calls of
\* mpu6050_module_deinit and mpu6050_module_init in any order
\* ------------------------------------------------------------------------
MaxCycleClock == TaskStartMs + (MaxCycleTicks - 1) * CONFIG_MPU6050_POLL_INTERVAL_MS

CycleTick ==
    /\ motion_task_handle # "NULL" /\ mpu6050_handle # "NULL"
    /\ clock <= MaxCycleClock
    /\ \E smp \in ShakeSamples : motion_detection_task(smp[1], smp[2], smp[3])
    /\ life' = [life EXCEPT !.mpu_fresh = FALSE]
    /\ UNCHANGED <<module_initialized, mpu6050_handle, motion_task_handle,
                   i2c_installed>>
    /\ MpuFrame

CycleInit ==
    /\ life.calls < MaxCycleCalls
    /\ \E fault \in MpuInitFaults : mpu6050_module_init(fault)
    /\ MpuFrame

CycleDeinit ==
    /\ life.calls < MaxCycleCalls
    /\ mpu6050_module_deinit
    /\ MpuFrame

CycleNext == CycleTick \/ CycleInit \/ CycleDeinit

SpecCycle == Init /\ [][CycleNext]_vars

\* no loop iteration has run since mpu6050_module_init last started the module
FreshlyInitialized == module_initialized /\ life.mpu_fresh

\* C38: after any sequence of init, loop iterations and deinit/init cycles,
\* at the end of every iteration and after every init is_shaking implies
\* motion_status.shake_detected, and a freshly initialized module is idle:
\* is_shaking false, the shake timer and the display timers zero.
C38_DetectorConsistentAcrossCycles ==
    /\ is_shaking => motion_status.shake_detected
    /\ FreshlyInitialized =>
          /\ ~is_shaking
          /\ shake_start_time = 0 /\ shake_display_start = 0
          /\ tap_display_start = 0


\* C39: at the end of every iteration of pir_monitoring_task that reads
\* absence, no_motion_duration is the time of the iteration minus
\* last_motion_time when a motion edge has been recorded since init, at
\* whatever time the edge occurred, and 0 when none has been recorded.
C39_DurationSinceLastEdge ==
    (pir_hist.ticks > 0 /\ ~pir_hist.current_motion) =>
        pir_status.no_motion_duration =
            IF pir_hist.edge THEN pir_hist.now - pir_status.last_motion_time ELSE 0

====
